---- MODULE Spec2Model ----
(***************************************************************************)
(* A model of dictforge's Kaikki cache layer: KaikkiClient (kaikki.py) and *)
(* the same operations as the monolithic Builder implements them           *)
(* (builder.py).  Files on disk are records, a language name is a sequence *)
(* of tokens (alphanumeric words and single separator characters), a text  *)
(* is a sequence of one-character strings, and a line of a JSONL dump is a *)
(* record saying whether it is blank, invalid JSON or an entry.            *)
(***************************************************************************)
EXTENDS Integers, Sequences, FiniteSets, TLC

VARIABLES
    serverRaw,        \* body served at RAW_DUMP_URL (lines of the gzip dump)
    serverLang,       \* body served at LANGUAGE_DUMP_URL, per kaikki slug
    rawFile,          \* raw/raw-wiktextract-data.jsonl.gz
    langFiles,        \* languages/kaikki.org-dictionary-<slug>.jsonl
    filteredFiles,    \* filtered/<slug>.jsonl
    metaFiles,        \* filtered/<slug>.meta.json
    tmpFiles,         \* filtered/<slug>.tmp
    localizedFiles,   \* filtered/<slug>__to_<target>.jsonl
    mapFiles,         \* translations/<src>_to_<tgt>.json
    translationCache, \* KaikkiClient._translation_cache / Builder._translation_cache
    arg,              \* the argument of a call of a pure helper
    result,           \* the value the last call returned, where it is not a path
    clock,            \* file-system time in ticks
    ret,              \* what the last call returned or raised, and what it touched
    done,             \* per language: the result of the first successful filter call
    fdServer,         \* what download.freedict.org serves, per language pair
    fdDisk,           \* the cache directory of FreeDictSource, per language pair
    procs,            \* the position and locals of each concurrent run
    tatoeba,          \* per TatoebaExamples instance: pairs.json and _pairs
    capture           \* a progress capture: its buffer, its counters and its Rich task

kaikkiDisk == <<rawFile, langFiles, filteredFiles, metaFiles, tmpFiles>>
glossDisk == <<localizedFiles, mapFiles, translationCache>>
otherVars == <<fdServer, fdDisk, procs, tatoeba, capture>>
restVars == <<localizedFiles, mapFiles, translationCache, arg, result, otherVars>>
vars == <<serverRaw, serverLang, rawFile, langFiles, filteredFiles, metaFiles,
          tmpFiles, localizedFiles, mapFiles, translationCache, arg, result,
          clock, ret, done, fdServer, fdDisk, procs, tatoeba, capture>>

(***************************************************************************)
(* Bounds of the model.                                                    *)
(***************************************************************************)
MaxLines == 2
MaxClock == 2
MaxIndex == 2
TicksPerSec == 2

SeqsUpTo(S, n) == UNION {[1..k -> S] : k \in 0..n}

(***************************************************************************)
(* Language names and the slugs derived from them.                         *)
(***************************************************************************)
Serbian == <<"Serbian">>
Croatian == <<"Croatian">>
SerboCroatian == <<"Serbo", "-", "Croatian">>
English == <<"English">>
Russian == <<"Russian">>
NoName == <<>>

Separators == {" ", "-", "'", "!", "_"}
Whitespace == {" "}

\* _LANGUAGE_FALLBACKS and KaikkiClient._canonical_language
CanonicalLanguage(language) ==
    IF language = Croatian \/ language = Serbian THEN SerboCroatian ELSE language

RECURSIVE LStrip(_)
LStrip(s) ==
    IF s # <<>> /\ Head(s) \in Whitespace THEN LStrip(Tail(s)) ELSE s

RECURSIVE RStrip(_)
RStrip(s) ==
    IF s # <<>> /\ s[Len(s)] \in Whitespace THEN RStrip(SubSeq(s, 1, Len(s) - 1)) ELSE s

\* str.strip()
Strip(s) == RStrip(LStrip(s))

\* the character class [A-Za-z0-9]
IsAlnum(tok) == tok \notin Separators

RECURSIVE SubRuns(_, _)
\* re.sub(r"[^A-Za-z0-9]+", "_", value): inRun says the previous token was replaced
SubRuns(s, inRun) ==
    IF s = <<>> THEN <<>>
    ELSE IF IsAlnum(Head(s)) THEN <<Head(s)>> \o SubRuns(Tail(s), FALSE)
    ELSE IF inRun THEN SubRuns(Tail(s), TRUE)
    ELSE <<"_">> \o SubRuns(Tail(s), TRUE)

\* KaikkiClient._slugify and Builder._slugify
Slugify(value) ==
    LET r == SubRuns(Strip(value), FALSE)
    IN IF r = <<>> THEN <<"language">> ELSE r

\* KaikkiClient._kaikki_slug and Builder._kaikki_slug
KaikkiSlug(language) ==
    SelectSeq(language, LAMBDA tok : tok \notin {" ", "-", "'"})

Langs == {Serbian, English}
Slugs == {Slugify(L) : L \in Langs} \cup {Slugify(CanonicalLanguage(L)) : L \in Langs}
KaikkiSlugs == {KaikkiSlug(L) : L \in Langs} \cup {KaikkiSlug(CanonicalLanguage(L)) : L \in Langs}

(***************************************************************************)
(* Lines of a JSONL dump and files.                                        *)
(***************************************************************************)
Blank == [kind |-> "blank", language |-> NoName, lang |-> NoName, word |-> <<>>, senses |-> <<>>]
Bad == [kind |-> "bad", language |-> NoName, lang |-> NoName, word |-> <<>>, senses |-> <<>>]
Entry(language, lang, word, senses) ==
    [kind |-> "json", language |-> language, lang |-> lang, word |-> word, senses |-> senses]

NoFile == [exists |-> FALSE, lines |-> <<>>, mtime |-> 0, truncated |-> FALSE]
MkFile(lines, t, truncated) ==
    [exists |-> TRUE, lines |-> lines, mtime |-> t, truncated |-> truncated]

NoMeta == [exists |-> FALSE, readable |-> FALSE, language |-> NoName, count |-> 0, source_mtime |-> -1]
MkMeta(language, count, mt) ==
    [exists |-> TRUE, readable |-> TRUE, language |-> language, count |-> count, source_mtime |-> mt]
UnreadableMeta == [exists |-> TRUE, readable |-> FALSE, language |-> NoName, count |-> 0, source_mtime |-> -1]

\* int(raw_dump.stat().st_mtime)
IntMtime(t) == t \div TicksPerSec

NonBlank(lines) == SelectSeq(lines, LAMBDA l : l.kind # "blank")

(***************************************************************************)
(* Streaming downloads.  A response either is refused (RequestException on *)
(* get or raise_for_status), arrives whole, or breaks after `at` chunks;   *)
(* a chunk is modelled as one line of the body.                            *)
(***************************************************************************)
NetOutcomes(body) ==
    {[kind |-> "refused", at |-> 0], [kind |-> "ok", at |-> Len(body)]}
        \cup {[kind |-> "cut", at |-> k] : k \in 0..(Len(body) - 1)}

\* the write loop of ensure_raw_dump / ensure_language_dataset: the target is
\* opened for writing at its final path and chunks are appended as they arrive
StreamToTarget(body, net, t) ==
    IF net.kind = "ok" THEN MkFile(body, t, FALSE)
    ELSE MkFile(SubSeq(body, 1, net.at), t, TRUE)

\* KaikkiClient.ensure_raw_dump
ensure_raw_dump(raw, body, net, t) ==
    IF raw.exists THEN [file |-> raw, res |-> "cached"]
    ELSE IF net.kind = "refused" THEN [file |-> raw, res |-> "KaikkiDownloadError"]
    ELSE IF net.kind = "cut"
         THEN [file |-> StreamToTarget(body, net, t), res |-> "KaikkiDownloadError"]
    ELSE [file |-> StreamToTarget(body, net, t), res |-> "ok"]

\* Builder._ensure_raw_dump: a failure in the chunk loop is not wrapped
Builder_ensure_raw_dump(raw, body, net, t) ==
    IF raw.exists THEN [file |-> raw, res |-> "cached"]
    ELSE IF net.kind = "refused" THEN [file |-> raw, res |-> "KaikkiDownloadError"]
    ELSE IF net.kind = "cut"
         THEN [file |-> StreamToTarget(body, net, t), res |-> "RequestException"]
    ELSE [file |-> StreamToTarget(body, net, t), res |-> "ok"]

\* KaikkiClient.ensure_language_dataset, after canonicalisation
ensure_language_dataset(target, body, net, t) ==
    IF target.exists THEN [file |-> target, res |-> "cached"]
    ELSE IF net.kind = "refused" THEN [file |-> target, res |-> "KaikkiDownloadError"]
    ELSE IF net.kind = "cut"
         THEN [file |-> StreamToTarget(body, net, t), res |-> "KaikkiDownloadError"]
    ELSE [file |-> StreamToTarget(body, net, t), res |-> "ok"]

\* Builder._ensure_language_dataset
Builder_ensure_language_dataset(target, body, net, t) ==
    IF target.exists THEN [file |-> target, res |-> "cached"]
    ELSE IF net.kind = "refused" THEN [file |-> target, res |-> "KaikkiDownloadError"]
    ELSE IF net.kind = "cut"
         THEN [file |-> StreamToTarget(body, net, t), res |-> "RequestException"]
    ELSE [file |-> StreamToTarget(body, net, t), res |-> "ok"]


(***************************************************************************)
(* The filter pass over the raw dump.                                      *)
(***************************************************************************)
\* entry.get("language") or entry.get("lang")
EntryLanguage(l) == IF l.language # NoName THEN l.language ELSE l.lang

RECURSIVE FilterPass(_, _)
\* the loop "for line in src": out holds what was written to dst when the loop
\* ended, err says how it ended
FilterPass(lines, language) ==
    IF lines = <<>> THEN [out |-> <<>>, err |-> "none"]
    ELSE LET l == Head(lines) IN
         IF l.kind = "blank" THEN FilterPass(Tail(lines), language)
         ELSE IF l.kind = "bad" THEN [out |-> <<>>, err |-> "KaikkiParseError"]
         ELSE LET rest == FilterPass(Tail(lines), language) IN
              IF EntryLanguage(l) = language
              THEN [out |-> <<l>> \o rest.out, err |-> rest.err]
              ELSE rest

\* gzip iteration over a stream that was cut short ends with EOFError
GzipTruncated(f) == f.truncated /\ Len(f.lines) > 0

\* the run of the filter loop over the raw dump file
RawPass(raw, language) ==
    LET pass == FilterPass(raw.lines, language)
    IN IF pass.err = "none" /\ GzipTruncated(raw)
       THEN [out |-> pass.out, err |-> "EOFError"]
       ELSE pass

\* the freshness test with the comparison of the mtimes inverted
CacheIsFresh_Inverted(filtered, meta, raw_mtime) ==
    /\ filtered.exists
    /\ meta.exists
    /\ meta.readable
    /\ meta.source_mtime # raw_mtime
    /\ meta.count # 0

\* the test "meta.get('source_mtime') == raw_mtime and meta.get('count')"
CacheIsFresh(filtered, meta, raw_mtime) ==
    /\ filtered.exists
    /\ meta.exists
    /\ meta.readable
    /\ meta.source_mtime = raw_mtime
    /\ meta.count # 0

\* KaikkiClient.ensure_filtered_language from the freshness test on; `language` is
\* the canonical name and raw the file ensure_raw_dump returned
KaikkiFilter(language, raw, filtered, meta, tmp, langFile, langBody, netLang, t) ==
    LET raw_mtime == IntMtime(raw.mtime)
        pass == RawPass(raw, language)
        same == [filtered |-> filtered, meta |-> meta, tmp |-> tmp, langFile |-> langFile,
                 outcome |-> "cached", count |-> meta.count,
                 readRaw |-> FALSE, fellBack |-> FALSE]
    IN IF CacheIsFresh(filtered, meta, raw_mtime) THEN same
       ELSE IF pass.err # "none"
       THEN [same EXCEPT !.tmp = MkFile(pass.out, t, FALSE), !.outcome = pass.err,
                         !.count = 0, !.readRaw = TRUE]
       ELSE IF pass.out # <<>>
       THEN [same EXCEPT !.filtered = MkFile(pass.out, t, FALSE),
                         !.meta = MkMeta(language, Len(pass.out), raw_mtime),
                         !.tmp = NoFile, !.outcome = "ok",
                         !.count = Len(pass.out), !.readRaw = TRUE]
       ELSE LET ld == ensure_language_dataset(langFile, langBody, netLang, t)
                copy == NonBlank(ld.file.lines)
                fb == [same EXCEPT !.tmp = NoFile, !.langFile = ld.file, !.count = 0,
                                   !.readRaw = TRUE, !.fellBack = TRUE]
            IN IF ld.res \notin {"ok", "cached"} THEN [fb EXCEPT !.outcome = ld.res]
               ELSE IF copy = <<>> THEN [fb EXCEPT !.outcome = "KaikkiDownloadError"]
               ELSE [fb EXCEPT !.filtered = MkFile(copy, t, FALSE),
                               !.meta = MkMeta(language, Len(copy), raw_mtime),
                               !.outcome = "ok", !.count = Len(copy)]

\* Builder._ensure_filtered_language from the freshness test on: dst is the
\* filtered file itself, and zero matches are an error
BuilderFilter(language, raw, filtered, meta, t) ==
    LET raw_mtime == IntMtime(raw.mtime)
        pass == RawPass(raw, language)
        same == [filtered |-> filtered, meta |-> meta,
                 outcome |-> "cached", count |-> meta.count,
                 readRaw |-> FALSE, fellBack |-> FALSE]
    IN IF CacheIsFresh(filtered, meta, raw_mtime) THEN same
       ELSE IF pass.err # "none"
       THEN [same EXCEPT !.filtered = MkFile(pass.out, t, FALSE), !.outcome = pass.err,
                         !.count = 0, !.readRaw = TRUE]
       ELSE IF pass.out = <<>>
       THEN [same EXCEPT !.filtered = NoFile, !.outcome = "KaikkiDownloadError",
                         !.count = 0, !.readRaw = TRUE]
       ELSE [same EXCEPT !.filtered = MkFile(pass.out, t, FALSE),
                         !.meta = MkMeta(language, Len(pass.out), raw_mtime),
                         !.outcome = "ok", !.count = Len(pass.out), !.readRaw = TRUE]

(***************************************************************************)
(* What a call reports.                                                    *)
(***************************************************************************)
Ret(op, lang, outcome, slug, count, readRaw, fellBack) ==
    [op |-> op, lang |-> lang, outcome |-> outcome, slug |-> slug, count |-> count,
     readRaw |-> readRaw, fellBack |-> fellBack]

NoRet == Ret("none", NoName, "none", <<>>, 0, FALSE, FALSE)
NotDone == [ok |-> FALSE, slug |-> <<>>, count |-> 0, rawMtime |-> 0]
Succeeded(outcome) == outcome \in {"ok", "cached"}

(***************************************************************************)
(* The calls of the cache layer, each one atomic step.                     *)
(***************************************************************************)
\* the responses a call can get for the raw dump; none is asked for when the
\* file is there
RawNet == IF rawFile.exists THEN {[kind |-> "ok", at |-> 0]} ELSE NetOutcomes(serverRaw)

\* KaikkiClient.ensure_raw_dump()
EnsureRawDump ==
    /\ clock < MaxClock
    /\ \E net \in NetOutcomes(serverRaw) :
         LET rd == ensure_raw_dump(rawFile, serverRaw, net, clock + 1) IN
         /\ rawFile' = rd.file
         /\ clock' = IF rd.file # rawFile THEN clock + 1 ELSE clock
         /\ ret' = Ret("ensure_raw_dump", NoName, rd.res, <<>>, 0, FALSE, FALSE)
    /\ UNCHANGED <<serverRaw, serverLang, langFiles, filteredFiles, metaFiles, tmpFiles,
                   done, restVars>>

\* Builder._ensure_raw_dump()
BuilderEnsureRawDump ==
    /\ clock < MaxClock
    /\ \E net \in NetOutcomes(serverRaw) :
         LET rd == Builder_ensure_raw_dump(rawFile, serverRaw, net, clock + 1) IN
         /\ rawFile' = rd.file
         /\ clock' = IF rd.file # rawFile THEN clock + 1 ELSE clock
         /\ ret' = Ret("Builder._ensure_raw_dump", NoName, rd.res, <<>>, 0, FALSE, FALSE)
    /\ UNCHANGED <<serverRaw, serverLang, langFiles, filteredFiles, metaFiles, tmpFiles,
                   done, restVars>>

\* KaikkiClient.ensure_language_dataset(L)
EnsureLanguageDataset(L) ==
    /\ clock < MaxClock
    /\ LET language == CanonicalLanguage(L)
           slug == KaikkiSlug(language)
       IN \E net \in NetOutcomes(serverLang[slug]) :
            LET ld == ensure_language_dataset(langFiles[slug], serverLang[slug], net, clock + 1) IN
            /\ langFiles' = [langFiles EXCEPT ![slug] = ld.file]
            /\ clock' = IF ld.file # langFiles[slug] THEN clock + 1 ELSE clock
            /\ ret' = Ret("ensure_language_dataset", L, ld.res, slug, 0, FALSE, FALSE)
    /\ UNCHANGED <<serverRaw, serverLang, rawFile, filteredFiles, metaFiles, tmpFiles,
                   done, restVars>>

\* KaikkiClient.ensure_filtered_language(L)
EnsureFilteredLanguage(L) ==
    /\ clock < MaxClock
    /\ LET language == CanonicalLanguage(L)
           slug == Slugify(language)
           kslug == KaikkiSlug(language)
       IN \E netRaw \in RawNet, netLang \in NetOutcomes(serverLang[kslug]) :
            LET rd == ensure_raw_dump(rawFile, serverRaw, netRaw, clock + 1) IN
            IF ~Succeeded(rd.res)
            THEN /\ rawFile' = rd.file
                 /\ ret' = Ret("ensure_filtered_language", L, rd.res, slug, 0, FALSE, FALSE)
                 /\ clock' = IF rd.file # rawFile THEN clock + 1 ELSE clock
                 /\ UNCHANGED <<langFiles, filteredFiles, metaFiles, tmpFiles, done>>
            ELSE LET f == KaikkiFilter(language, rd.file, filteredFiles[slug], metaFiles[slug],
                                       tmpFiles[slug], langFiles[kslug], serverLang[kslug],
                                       netLang, clock + 1)
                 IN /\ rawFile' = rd.file
                    /\ filteredFiles' = [filteredFiles EXCEPT ![slug] = f.filtered]
                    /\ metaFiles' = [metaFiles EXCEPT ![slug] = f.meta]
                    /\ tmpFiles' = [tmpFiles EXCEPT ![slug] = f.tmp]
                    /\ langFiles' = [langFiles EXCEPT ![kslug] = f.langFile]
                    /\ ret' = Ret("ensure_filtered_language", L, f.outcome, slug, f.count,
                                  f.readRaw, f.fellBack)
                    /\ clock' = IF kaikkiDisk' # kaikkiDisk THEN clock + 1 ELSE clock
                    /\ done' = IF Succeeded(f.outcome) /\ ~done[L].ok
                               THEN [done EXCEPT ![L] = [ok |-> TRUE, slug |-> slug,
                                                         count |-> f.count,
                                                         rawMtime |-> rd.file.mtime]]
                               ELSE done
    /\ UNCHANGED <<serverRaw, serverLang, restVars>>

\* Builder._ensure_filtered_language(L)
BuilderEnsureFilteredLanguage(L) ==
    /\ clock < MaxClock
    /\ LET slug == Slugify(L)
       IN \E netRaw \in RawNet :
            LET rd == Builder_ensure_raw_dump(rawFile, serverRaw, netRaw, clock + 1) IN
            IF ~Succeeded(rd.res)
            THEN /\ rawFile' = rd.file
                 /\ ret' = Ret("Builder._ensure_filtered_language", L, rd.res, slug, 0,
                               FALSE, FALSE)
                 /\ clock' = IF rd.file # rawFile THEN clock + 1 ELSE clock
                 /\ UNCHANGED <<filteredFiles, metaFiles>>
            ELSE LET f == BuilderFilter(L, rd.file, filteredFiles[slug], metaFiles[slug],
                                        clock + 1)
                 IN /\ rawFile' = rd.file
                    /\ filteredFiles' = [filteredFiles EXCEPT ![slug] = f.filtered]
                    /\ metaFiles' = [metaFiles EXCEPT ![slug] = f.meta]
                    /\ ret' = Ret("Builder._ensure_filtered_language", L, f.outcome, slug,
                                  f.count, f.readRaw, f.fellBack)
                    /\ clock' = IF <<rawFile', filteredFiles', metaFiles'>>
                                     # <<rawFile, filteredFiles, metaFiles>>
                                THEN clock + 1 ELSE clock
    /\ UNCHANGED <<serverRaw, serverLang, langFiles, tmpFiles, done, restVars>>

(***************************************************************************)
(* Spec: an empty cache directory, a server with some dumps, and any       *)
(* sequence of calls.                                                      *)
(***************************************************************************)
W1 == <<"a">>
W2 == <<"b">>

RawLineSet ==
    {Blank, Bad,
     Entry(Serbian, NoName, W1, <<>>),
     Entry(NoName, SerboCroatian, W2, <<>>)}

LangBodies ==
    {<<>>,
     <<Blank>>,
     <<Entry(NoName, NoName, W1, <<>>), Blank, Bad>>}

\* the state no run of the other components has touched
NoOtherState ==
    /\ fdServer = <<>>
    /\ fdDisk = <<>>
    /\ procs = <<>>
    /\ tatoeba = <<>>
    /\ capture = <<>>

EmptyGlossDisk ==
    /\ localizedFiles = <<>>
    /\ mapFiles = <<>>
    /\ translationCache = <<>>
    /\ arg = <<>>
    /\ result = <<>>

Init ==
    /\ serverRaw \in SeqsUpTo(RawLineSet, MaxLines)
    /\ serverLang \in {[s \in KaikkiSlugs |-> b] : b \in LangBodies}
    /\ rawFile = NoFile
    /\ langFiles = [s \in KaikkiSlugs |-> NoFile]
    /\ filteredFiles = [s \in Slugs |-> NoFile]
    /\ metaFiles = [s \in Slugs |-> NoMeta]
    /\ tmpFiles = [s \in Slugs |-> NoFile]
    /\ EmptyGlossDisk
    /\ clock = 0
    /\ ret = NoRet
    /\ NoOtherState
    /\ done = [L \in Langs |-> NotDone]

Next ==
    \/ \E L \in Langs : EnsureFilteredLanguage(L)
    \/ \E L \in Langs : BuilderEnsureFilteredLanguage(L)

Spec == Init /\ [][Next]_vars

(***************************************************************************)
(* SpecDownload: the same start, and any sequence of download calls.       *)
(***************************************************************************)
NextDownload ==
    \/ EnsureRawDump
    \/ BuilderEnsureRawDump
    \/ \E L \in Langs : EnsureLanguageDataset(L)

SpecDownload == Init /\ [][NextDownload]_vars

(***************************************************************************)
(* SpecSidecar: the raw dump is in the cache, and the filtered file and    *)
(* its sidecar are whatever an earlier run or another program left there.  *)
(***************************************************************************)
SidecarStates ==
    {NoMeta, UnreadableMeta}
        \cup {MkMeta(SerboCroatian, c, m) : c \in -1..MaxLines, m \in 0..1}

InitSidecar ==
    /\ serverRaw \in {<<Entry(Serbian, NoName, W1, <<>>)>>,
                      <<Entry(NoName, SerboCroatian, W2, <<>>), Entry(Serbian, NoName, W1, <<>>)>>}
    /\ serverLang = [s \in KaikkiSlugs |-> <<>>]
    /\ \E t \in {0, TicksPerSec} : rawFile = MkFile(serverRaw, t, FALSE)
    /\ langFiles = [s \in KaikkiSlugs |-> NoFile]
    /\ \E f \in {NoFile, MkFile(<<Entry(Serbian, NoName, W2, <<>>)>>, 0, FALSE)} :
          filteredFiles = [s \in Slugs |-> f]
    /\ \E m \in SidecarStates : metaFiles = [s \in Slugs |-> m]
    /\ tmpFiles = [s \in Slugs |-> NoFile]
    /\ EmptyGlossDisk
    /\ clock = 0
    /\ ret = NoRet
    /\ NoOtherState
    /\ done = [L \in Langs |-> NotDone]

SpecSidecar == InitSidecar /\ [][Next]_vars

(***************************************************************************)
(* Properties of the filtered-subset cache.                                *)
(***************************************************************************)
FilterOps == {"ensure_filtered_language", "Builder._ensure_filtered_language"}
HasBadLine(lines) == \E i \in 1..Len(lines) : lines[i].kind = "bad"
Matching(lines, L) == SelectSeq(lines, LAMBDA l : l.kind = "json" /\ EntryLanguage(l) = L)

\* C1: once ensure_filtered_language(L) has succeeded, a further call for L made
\* while the raw dump keeps its mtime returns the same path and count, does not
\* read the raw dump and rewrites neither the filtered file nor the sidecar.
C1_Idempotent ==
    [][\A L \in Langs :
          ( /\ done[L].ok
            /\ ret'.op = "ensure_filtered_language"
            /\ ret'.lang = L
            /\ rawFile'.exists
            /\ rawFile'.mtime = done[L].rawMtime )
          => /\ ret'.outcome = "cached"
             /\ ret'.slug = done[L].slug
             /\ ret'.count = done[L].count
             /\ ~ret'.readRaw
             /\ filteredFiles' = filteredFiles
             /\ metaFiles' = metaFiles
             /\ tmpFiles' = tmpFiles]_vars

\* C1 witness: a call answered from the cache that an earlier call for the same
\* language filled by filtering
C1_Witness ==
    /\ ret.op = "ensure_filtered_language"
    /\ ret.outcome = "cached"
    /\ done[ret.lang].ok
    /\ done[ret.lang].count = ret.count
    /\ ret.count > 0

C3_FilteredIsRequestedLanguage ==
    ( /\ ret.op = "ensure_filtered_language"
      /\ Succeeded(ret.outcome)
      /\ Matching(rawFile.lines, ret.lang) # <<>> )
    => /\ filteredFiles[ret.slug].lines = Matching(rawFile.lines, ret.lang)
       /\ metaFiles[ret.slug].count = Len(Matching(rawFile.lines, ret.lang))
       /\ ret.count = Len(Matching(rawFile.lines, ret.lang))

\* C4: a filter call on a raw dump with an invalid JSON line raises
\* KaikkiParseError and leaves the filtered file and the sidecar as they were.
C4_ParseErrorLeavesFinalPaths ==
    [][( /\ ret'.op \in FilterOps
         /\ rawFile.exists
         /\ HasBadLine(rawFile.lines) )
       => /\ ret'.outcome = "KaikkiParseError"
          /\ filteredFiles' = filteredFiles
          /\ metaFiles' = metaFiles]_vars

\* C5: when no raw line matches L the call falls back to the per-language dump
\* and returns its non-blank lines with their number; if there are none it
\* fails with KaikkiDownloadError and leaves no filtered file, temp file or
\* sidecar.
C5_FallbackOnNoMatch ==
    [][( /\ ret'.op \in FilterOps
         /\ rawFile.exists
         /\ ~GzipTruncated(rawFile)
         /\ ~HasBadLine(rawFile.lines)
         /\ Matching(rawFile.lines, ret'.lang) = <<>>
         /\ ~filteredFiles[ret'.slug].exists )
       => LET dump == langFiles'[KaikkiSlug(CanonicalLanguage(ret'.lang))] IN
          /\ ret'.fellBack
          /\ \/ /\ ret'.outcome = "ok"
                /\ filteredFiles'[ret'.slug].lines = NonBlank(dump.lines)
                /\ ret'.count = Len(NonBlank(dump.lines))
             \/ /\ ret'.outcome = "KaikkiDownloadError"
                /\ ~filteredFiles'[ret'.slug].exists
                /\ ~tmpFiles'[ret'.slug].exists
                /\ ~metaFiles'[ret'.slug].exists]_vars

\* C6: a download that fails leaves no file at the final path, and a call that
\* answers from the cache never returns a truncated file.
C6_NoPartialFileAtFinalPath ==
    /\ ( ret.op \in {"ensure_raw_dump", "Builder._ensure_raw_dump"}
          /\ ~Succeeded(ret.outcome) ) => ~rawFile.exists
    /\ ( ret.op \in {"ensure_raw_dump", "Builder._ensure_raw_dump"}
          /\ ret.outcome = "cached" ) => rawFile.lines = serverRaw
    /\ ( ret.op = "ensure_language_dataset" /\ ~Succeeded(ret.outcome) )
          => ~langFiles[ret.slug].exists
    /\ ( ret.op = "ensure_language_dataset" /\ ret.outcome = "cached" )
          => langFiles[ret.slug].lines = serverLang[ret.slug]

(***************************************************************************)
(* Texts: sequences of one-character strings.                              *)
(***************************************************************************)
\* the code point of a character
CharCode(c) ==
    CASE c = " " -> 32 [] c = "(" -> 40 [] c = ";" -> 59
      [] c = "A" -> 65 [] c = "B" -> 66
      [] c = "a" -> 97 [] c = "b" -> 98 [] c = "x" -> 120 [] c = "y" -> 121
      [] c = "H" -> 72 [] c = "h" -> 104 [] c = "j" -> 106 [] c = "k" -> 107
      [] c = "l" -> 108 [] c = "u" -> 117 [] c = "K" -> 75 [] c = "d" -> 100
      [] c = "m" -> 109
      [] c = "CY_KA" -> 1050 [] c = "cy_de" -> 1076 [] c = "cy_ka" -> 1082 [] c = "cy_em" -> 1084
      [] c = "cy_u" -> 1091 [] c = "cy_ya" -> 1103 [] c = "cy_lje" -> 1113

\* str.lower() on one character
LowerChar(c) ==
    CASE c = "A" -> "a" [] c = "B" -> "b" [] c = "H" -> "h" [] c = "K" -> "k"
      [] c = "E" -> "e" [] c = "N" -> "n" [] c = "R" -> "r" [] c = "S" -> "s"
      [] c = "U" -> "u" [] c = "X" -> "x"
      [] c = "CY_KA" -> "cy_ka" [] OTHER -> c

\* str.lower()
Lower(s) == [i \in 1..Len(s) |-> LowerChar(s[i])]

RECURSIVE TextLess(_, _)
\* s < t as Python compares strings
TextLess(s, t) ==
    IF t = <<>> THEN FALSE
    ELSE IF s = <<>> THEN TRUE
    ELSE IF Head(s) = Head(t) THEN TextLess(Tail(s), Tail(t))
    ELSE CharCode(Head(s)) < CharCode(Head(t))

RECURSIVE Sorted(_)
\* sorted(set)
Sorted(S) ==
    IF S = {} THEN <<>>
    ELSE LET m == CHOOSE x \in S : \A y \in S : x = y \/ TextLess(x, y)
         IN <<m>> \o Sorted(S \ {m})

RECURSIVE Before(_, _)
\* s.split(ch, 1)[0]
Before(s, ch) ==
    IF s = <<>> \/ Head(s) = ch THEN <<>> ELSE <<Head(s)>> \o Before(Tail(s), ch)

Range(f) == {f[i] : i \in DOMAIN f}

(***************************************************************************)
(* Gloss retargeting.  A translation map is a function from lowercase      *)
(* headwords to sequences of texts; a sense is a record.                   *)
(***************************************************************************)
Sense(links, glosses, raw_glosses, translations) ==
    [links |-> links, glosses |-> glosses, raw_glosses |-> raw_glosses,
     translations |-> translations]

\* translation_map.get(key, [])
MapGet(map, key) == IF key \in DOMAIN map THEN Range(map[key]) ELSE {}

\* the loop over sense.get("links")
LinkTranslations(sense, map) ==
    UNION {IF link # <<>> THEN MapGet(map, Lower(link[1])) ELSE {} :
             link \in Range(sense.links)}

\* the loop over sense.get("glosses"), run when the links gave nothing
GlossTranslations(sense, map) ==
    UNION {LET candidate == Lower(gloss)
               stripped == Strip(Before(Before(candidate, ";"), "("))
           IN IF candidate \in DOMAIN map THEN Range(map[candidate])
              ELSE MapGet(map, stripped) :
             gloss \in Range(sense.glosses)}

\* the rule with the "if not translations" test before the glosses left out
RewriteSense_LinksAndGlosses(sense, map) ==
    LET translations == LinkTranslations(sense, map) \cup GlossTranslations(sense, map)
    IN IF translations # {}
       THEN [sense EXCEPT !.glosses = Sorted(translations),
                          !.raw_glosses = Sorted(translations)]
       ELSE sense

\* the body of the loop "for sense in senses" of apply_translation_glosses
RewriteSense(sense, map) ==
    LET byLinks == LinkTranslations(sense, map)
        translations == IF byLinks # {} THEN byLinks ELSE GlossTranslations(sense, map)
    IN IF translations # {}
       THEN [sense EXCEPT !.glosses = Sorted(translations),
                          !.raw_glosses = Sorted(translations)]
       ELSE sense

\* KaikkiClient.apply_translation_glosses and Builder._apply_translation_glosses
apply_translation_glosses(entry, map) ==
    [entry EXCEPT !.senses = [i \in 1..Len(entry.senses) |-> RewriteSense(entry.senses[i], map)]]

(***************************************************************************)
(* SpecApply: apply_translation_glosses on entries and maps of a bounded   *)
(* set.                                                                    *)
(***************************************************************************)
TA == <<"A">>
Ta == <<"a">>
Tb == <<"b">>
Tx == <<"x">>
Ty == <<"y">>

ApplyLinks ==
    {<<>>, << <<TA>> >>, << <<>>, <<Tb, Ta>> >>, << <<Tx>> >>}
ApplyGlosses ==
    {<<>>, <<Ta>>, <<TA, Tb>>, << <<"A", " ", ";", "b">> >>, << <<" ", "b", "(", "a">> >>,
     << <<"a", ";", "b">>, <<"b", "(">> >>, << <<"x">> >>}
ApplySenses ==
    {Sense(l, g, r, <<>>) : l \in ApplyLinks, g \in ApplyGlosses, r \in {<<>>, <<Tx>>}}
ApplyMaps ==
    {<<>>,
     (Ta :> <<Ty>>),
     (Ta :> <<Tx, Ty>>) @@ (Tb :> <<TA, Tx>>),
     (Tb :> <<Ty, TA>>) @@ (<<"a", ";", "b">> :> <<Tb>>)}

InitApply ==
    /\ serverRaw = <<>>
    /\ serverLang = <<>>
    /\ rawFile = NoFile
    /\ langFiles = <<>>
    /\ filteredFiles = <<>>
    /\ metaFiles = <<>>
    /\ tmpFiles = <<>>
    /\ localizedFiles = <<>>
    /\ mapFiles = <<>>
    /\ translationCache = <<>>
    /\ \E s1 \in ApplySenses, s2 \in {Sense(<<>>, << <<"a", ";", "b">> >>, <<>>, <<>>)},
          m \in ApplyMaps :
          arg = [entry |-> Entry(NoName, NoName, Ta, <<s1, s2>>), map |-> m]
    /\ result = <<>>
    /\ clock = 0
    /\ ret = NoRet
    /\ NoOtherState
    /\ done = <<>>

\* apply_translation_glosses(entry, translation_map); the entry is changed in place
ApplyTranslationGlosses ==
    /\ ret.op = "none"
    /\ result' = apply_translation_glosses(arg.entry, arg.map)
    /\ ret' = Ret("apply_translation_glosses", NoName, "ok", <<>>, 0, FALSE, FALSE)
    /\ UNCHANGED <<serverRaw, serverLang, kaikkiDisk, glossDisk, arg, clock, done, otherVars>>

SpecApply == InitApply /\ [][ApplyTranslationGlosses]_vars

\* a sequence in strictly increasing order, so without duplicates
StrictlySorted(seq) == \A i, j \in 1..Len(seq) : i < j => TextLess(seq[i], seq[j])

\* the translations the first elements of the links of a sense yield
FromLinks(sense, map) ==
    {t \in UNION {Range(map[k]) : k \in DOMAIN map} :
        \E i \in 1..Len(sense.links) :
            /\ Len(sense.links[i]) > 0
            /\ Lower(sense.links[i][1]) \in DOMAIN map
            /\ \E n \in 1..Len(map[Lower(sense.links[i][1])]) :
                  map[Lower(sense.links[i][1])][n] = t}

\* the text before the first ';' or '(' of a text, whichever comes first
Prefix(s) ==
    LET cut == {i \in 1..Len(s) : s[i] \in {";", "("}}
    IN IF cut = {} THEN s
       ELSE SubSeq(s, 1, (CHOOSE i \in cut : \A j \in cut : i <= j) - 1)

\* the key a gloss is looked up under: the whole gloss lowercased if the map has
\* it, else its trimmed prefix
GlossKey(gloss, map) ==
    IF Lower(gloss) \in DOMAIN map THEN Lower(gloss) ELSE Strip(Prefix(Lower(gloss)))

\* the translations the glosses of a sense yield
FromGlosses(sense, map) ==
    {t \in UNION {Range(map[k]) : k \in DOMAIN map} :
        \E i \in 1..Len(sense.glosses) :
            /\ GlossKey(sense.glosses[i], map) \in DOMAIN map
            /\ t \in Range(map[GlossKey(sense.glosses[i], map)])}

\* C8: each sense is rewritten on its own: the translations of its links if they
\* yield any, else those of its glosses; a non-empty union replaces glosses and
\* raw_glosses, sorted and without duplicates, and an empty one leaves the
\* sense as it was.
C8_SenseRewriteRule ==
    ret.op = "apply_translation_glosses" =>
        /\ Len(result.senses) = Len(arg.entry.senses)
        /\ \A i \in 1..Len(arg.entry.senses) :
              LET old == arg.entry.senses[i]
                  new == result.senses[i]
                  union == IF FromLinks(old, arg.map) # {}
                           THEN FromLinks(old, arg.map)
                           ELSE FromGlosses(old, arg.map)
              IN IF union # {}
                 THEN /\ Range(new.glosses) = union
                      /\ StrictlySorted(new.glosses)
                      /\ new.raw_glosses = new.glosses
                      /\ new.links = old.links
                 ELSE new = old

\* C8 witness: one entry with a sense rewritten from its links although its
\* glosses have translations too, and a sense rewritten from a gloss prefix
C8_Witness ==
    /\ ret.op = "apply_translation_glosses"
    /\ FromLinks(arg.entry.senses[1], arg.map) # {}
    /\ FromGlosses(arg.entry.senses[1], arg.map) # {}
    /\ FromGlosses(arg.entry.senses[1], arg.map) # FromLinks(arg.entry.senses[1], arg.map)
    /\ result.senses[2].glosses # arg.entry.senses[2].glosses
    /\ Cardinality(Range(result.senses[1].glosses)) > 1

(***************************************************************************)
(* The translation map.                                                    *)
(***************************************************************************)
Translation(lang, word) == [lang |-> lang, word |-> word]

\* str.lower() on the tokens of a language name
LowerToken(tok) ==
    CASE tok = "English" -> "english" [] tok = "Russian" -> "russian"
      [] tok = "Serbian" -> "serbian" [] tok = "Croatian" -> "croatian"
      [] tok = "Serbo" -> "serbo" [] OTHER -> tok
LowerName(name) == [i \in 1..Len(name) |-> LowerToken(name[i])]

\* mapping[key] = value
Put(mapping, key, value) ==
    [k \in DOMAIN mapping \cup {key} |-> IF k = key THEN value ELSE mapping[k]]

\* the set comprehension of KaikkiClient.load_translation_map
TranslationsOf(entry, target_lang) ==
    {tr.word : tr \in {x \in UNION {Range(sense.translations) : sense \in Range(entry.senses)} :
                          x.lang = target_lang}}

\* the set comprehension of Builder._load_translation_map: an empty word is dropped
Builder_TranslationsOf(entry, target_lang) ==
    {tr.word : tr \in {x \in UNION {Range(sense.translations) : sense \in Range(entry.senses)} :
                          x.lang = target_lang /\ x.word # <<>>}}

RECURSIVE BuildMapping(_, _, _, _)
\* the loop over the lines of the source dump: blank and invalid lines are
\* passed over, and an entry with translations assigns mapping[word.lower()]
BuildMapping(lines, target_lang, mapping, builder) ==
    IF lines = <<>> THEN mapping
    ELSE LET l == Head(lines)
             translations == IF builder THEN Builder_TranslationsOf(l, target_lang)
                             ELSE TranslationsOf(l, target_lang)
         IN IF l.kind # "json" \/ translations = {}
            THEN BuildMapping(Tail(lines), target_lang, mapping, builder)
            ELSE BuildMapping(Tail(lines), target_lang,
                              Put(mapping, Lower(l.word), Sorted(translations)), builder)

NoMapFile == [exists |-> FALSE, map |-> <<>>, mtime |-> 0]
MkMapFile(map, t) == [exists |-> TRUE, map |-> map, mtime |-> t]

\* what load_translation_map does once the languages are settled: the memory
\* cache, the source dump, the cache file if it is not older than the dump, and
\* else a pass over the dump whose result is written and remembered
LoadMap(source_lang, target_lang, cache, dump, mapFile, readFails, t, builder) ==
    LET key == <<LowerName(source_lang), LowerName(target_lang)>> IN
    IF key \in DOMAIN cache
    THEN [map |-> cache[key], cache |-> cache, langFile |-> dump.file, mapFile |-> mapFile,
          outcome |-> "cached"]
    ELSE IF ~Succeeded(dump.res)
    THEN [map |-> <<>>, cache |-> cache, langFile |-> dump.file, mapFile |-> mapFile,
          outcome |-> dump.res]
    ELSE IF mapFile.exists /\ mapFile.mtime >= dump.file.mtime
    THEN [map |-> mapFile.map, cache |-> Put(cache, key, mapFile.map),
          langFile |-> dump.file, mapFile |-> mapFile, outcome |-> "ok"]
    ELSE IF readFails
    THEN [map |-> <<>>, cache |-> cache, langFile |-> dump.file, mapFile |-> mapFile,
          outcome |-> "KaikkiDownloadError"]
    ELSE LET mapping == BuildMapping(dump.file.lines, target_lang, <<>>, builder)
         IN [map |-> mapping, cache |-> Put(cache, key, mapping), langFile |-> dump.file,
             mapFile |-> MkMapFile(mapping, t), outcome |-> "ok"]

\* KaikkiClient.load_translation_map; the dump is asked for only when the memory
\* cache has no map for the pair
load_translation_map(source_lang, target_lang, cache, langFile, body, net, mapFile, readFails, t) ==
    LET key == <<LowerName(CanonicalLanguage(source_lang)),
                 LowerName(CanonicalLanguage(target_lang))>>
        dump == IF key \in DOMAIN cache THEN [file |-> langFile, res |-> "cached"]
                ELSE ensure_language_dataset(langFile, body, net, t)
    IN LoadMap(CanonicalLanguage(source_lang), CanonicalLanguage(target_lang), cache, dump,
               mapFile, readFails, t, FALSE)

\* Builder._load_translation_map
Builder_load_translation_map(source_lang, target_lang, cache, langFile, body, net, mapFile, readFails, t) ==
    LET key == <<LowerName(source_lang), LowerName(target_lang)>>
        dump == IF key \in DOMAIN cache THEN [file |-> langFile, res |-> "cached"]
                ELSE Builder_ensure_language_dataset(langFile, body, net, t)
    IN LoadMap(source_lang, target_lang, cache, dump, mapFile, readFails, t, TRUE)

Clients == {"KaikkiClient", "Builder"}
Pivot == English

\* translations/<source slug>_to_<target slug>.json
MapName(client, source_lang, target_lang) ==
    IF client = "KaikkiClient"
    THEN <<KaikkiSlug(CanonicalLanguage(source_lang)), KaikkiSlug(CanonicalLanguage(target_lang))>>
    ELSE <<KaikkiSlug(source_lang), KaikkiSlug(target_lang)>>

\* the responses a call can get for the dump of the pivot language
PivotNet ==
    IF langFiles[KaikkiSlug(Pivot)].exists
    THEN {[kind |-> "ok", at |-> 0]}
    ELSE NetOutcomes(serverLang[KaikkiSlug(Pivot)])

\* KaikkiClient.load_translation_map("English", T)
LoadTranslationMap(T) ==
    LET slug == KaikkiSlug(Pivot)
        name == MapName("KaikkiClient", Pivot, T)
    IN \E net \in PivotNet, readFails \in BOOLEAN :
         LET r == load_translation_map(Pivot, T, translationCache["KaikkiClient"],
                                       langFiles[slug], serverLang[slug], net, mapFiles[name],
                                       readFails, clock + 1)
             changed == r.langFile # langFiles[slug] \/ r.mapFile # mapFiles[name]
         IN /\ changed => clock < MaxClock
            /\ langFiles' = [langFiles EXCEPT ![slug] = r.langFile]
            /\ mapFiles' = [mapFiles EXCEPT ![name] = r.mapFile]
            /\ translationCache' = [translationCache EXCEPT !["KaikkiClient"] = r.cache]
            /\ result' = r.map
            /\ clock' = IF changed THEN clock + 1 ELSE clock
            /\ ret' = Ret("load_translation_map", T, r.outcome, name, 0, FALSE, FALSE)
            /\ UNCHANGED <<serverRaw, serverLang, rawFile, filteredFiles, metaFiles, tmpFiles,
                           localizedFiles, arg, done, otherVars>>

\* Builder._load_translation_map("English", T)
BuilderLoadTranslationMap(T) ==
    LET slug == KaikkiSlug(Pivot)
        name == MapName("Builder", Pivot, T)
    IN \E net \in PivotNet, readFails \in BOOLEAN :
         LET r == Builder_load_translation_map(Pivot, T, translationCache["Builder"],
                                               langFiles[slug], serverLang[slug], net,
                                               mapFiles[name], readFails, clock + 1)
             changed == r.langFile # langFiles[slug] \/ r.mapFile # mapFiles[name]
         IN /\ changed => clock < MaxClock
            /\ langFiles' = [langFiles EXCEPT ![slug] = r.langFile]
            /\ mapFiles' = [mapFiles EXCEPT ![name] = r.mapFile]
            /\ translationCache' = [translationCache EXCEPT !["Builder"] = r.cache]
            /\ result' = r.map
            /\ clock' = IF changed THEN clock + 1 ELSE clock
            /\ ret' = Ret("Builder._load_translation_map", T, r.outcome, name, 0, FALSE, FALSE)
            /\ UNCHANGED <<serverRaw, serverLang, rawFile, filteredFiles, metaFiles, tmpFiles,
                           localizedFiles, arg, done, otherVars>>

(***************************************************************************)
(* SpecMap: translation maps built from dumps of a bounded set of lines.   *)
(***************************************************************************)
MapTargets == {Russian}
MapNames == {MapName(c, Pivot, T) : c \in Clients, T \in {Russian, English}}

MapLineSet ==
    {Blank, Bad,
     Entry(NoName, NoName, TA, <<Sense(<<>>, <<>>, <<>>, <<Translation(Russian, Tx)>>)>>),
     Entry(NoName, NoName, Ta, <<Sense(<<>>, <<>>, <<>>,
                                       <<Translation(Russian, Ty), Translation(English, Tx)>>)>>),
     Entry(NoName, NoName, Tb, <<Sense(<<>>, <<>>, <<>>,
                                       <<Translation(Russian, Ty), Translation(Russian, Tx)>>),
                                 Sense(<<>>, <<>>, <<>>, <<Translation(Russian, Ty)>>)>>),
     Entry(NoName, NoName, Tb, <<Sense(<<>>, <<>>, <<>>, <<Translation(English, Tx)>>)>>)}

InitMap ==
    /\ serverRaw = <<>>
    /\ \E body \in SeqsUpTo(MapLineSet, MaxLines) : serverLang = [s \in KaikkiSlugs |-> body]
    /\ rawFile = NoFile
    /\ langFiles = [s \in KaikkiSlugs |-> NoFile]
    /\ filteredFiles = [s \in Slugs |-> NoFile]
    /\ metaFiles = [s \in Slugs |-> NoMeta]
    /\ tmpFiles = [s \in Slugs |-> NoFile]
    /\ localizedFiles = <<>>
    /\ mapFiles = [n \in MapNames |-> NoMapFile]
    /\ translationCache = [c \in Clients |-> <<>>]
    /\ arg = <<>>
    /\ result = <<>>
    /\ clock = 0
    /\ ret = NoRet
    /\ NoOtherState
    /\ done = <<>>

NextMap ==
    \/ \E T \in MapTargets : LoadTranslationMap(T)
    \/ \E T \in MapTargets : BuilderLoadTranslationMap(T)

SpecMap == InitMap /\ [][NextMap]_vars

LoadOps == {"load_translation_map", "Builder._load_translation_map"}

\* the entries of a dump whose word lowercases to k
EntriesFor(lines, k) ==
    {i \in 1..Len(lines) : lines[i].kind = "json" /\ Lower(lines[i].word) = k}

\* the translation words into a language that the entries for k carry
WordsFor(lines, k, target_lang) ==
    {w \in {Tx, Ty, TA, Ta, Tb} :
        \E i \in EntriesFor(lines, k) : \E n \in 1..Len(lines[i].senses) :
            \E j \in 1..Len(lines[i].senses[n].translations) :
                /\ lines[i].senses[n].translations[j].lang = target_lang
                /\ lines[i].senses[n].translations[j].word = w}

\* C10: the map a load returns has exactly the lowercase headwords with a
\* translation into the target language, each mapped to the sorted
\* duplicate-free list of all those translations over every entry and sense
\* with that headword, whatever its letter case.
C10_MapCollectsAllEntries ==
    (ret.op \in LoadOps /\ Succeeded(ret.outcome)) =>
        LET lines == langFiles[KaikkiSlug(Pivot)].lines IN
        /\ DOMAIN result = {k \in {Ta, Tb} : WordsFor(lines, k, ret.lang) # {}}
        /\ \A k \in DOMAIN result :
              /\ Range(result[k]) = WordsFor(lines, k, ret.lang)
              /\ StrictlySorted(result[k])

(***************************************************************************)
(* Gloss retargeting of a filtered file.                                   *)
(***************************************************************************)
\* langutil.lang_meta(language)[0]: the ISO code of a language name
LangMeta(language) ==
    CASE language = English -> "en" [] language = Russian -> "ru"
      [] language = Serbian -> "sr" [] language = Croatian -> "hr"
      [] OTHER -> "und"

RECURSIVE TranslatePass(_, _, _)
\* the loop of KaikkiClient.ensure_translated_glosses over the base file: a
\* blank line is passed over, an invalid one stops the pass, and the write of
\* entry number io + 1 fails when io >= 0
TranslatePass(lines, map, io) ==
    IF lines = <<>> THEN [out |-> <<>>, err |-> "none"]
    ELSE LET l == Head(lines) IN
         IF l.kind = "blank" THEN TranslatePass(Tail(lines), map, io)
         ELSE IF l.kind = "bad" THEN [out |-> <<>>, err |-> "KaikkiParseError"]
         ELSE IF io = 0 THEN [out |-> <<>>, err |-> "OSError"]
         ELSE LET rest == TranslatePass(Tail(lines), map, IF io > 0 THEN io - 1 ELSE io)
              IN [out |-> <<apply_translation_glosses(l, map)>> \o rest.out, err |-> rest.err]

RECURSIVE Builder_TranslatePass(_, _, _)
\* the loop of Builder._ensure_translated_glosses: every line json.loads
\* rejects, a blank one included, is passed over
Builder_TranslatePass(lines, map, io) ==
    IF lines = <<>> THEN [out |-> <<>>, err |-> "none"]
    ELSE LET l == Head(lines) IN
         IF l.kind # "json" THEN Builder_TranslatePass(Tail(lines), map, io)
         ELSE IF io = 0 THEN [out |-> <<>>, err |-> "OSError"]
         ELSE LET rest == Builder_TranslatePass(Tail(lines), map, IF io > 0 THEN io - 1 ELSE io)
              IN [out |-> <<apply_translation_glosses(l, map)>> \o rest.out, err |-> rest.err]

\* the localized file is fresh by mtime
LocalizedIsFresh(localized, base) == localized.exists /\ localized.mtime >= base.mtime

\* KaikkiClient.ensure_translated_glosses: the translation map first, then the
\* localized file, opened for writing at its final path
ensure_translated_glosses(source_lang, target_lang, base, localized, cache, langFile, body, net, mapFile, readFails, io, t) ==
    LET m == load_translation_map(source_lang, target_lang, cache, langFile, body, net,
                                  mapFile, readFails, t)
        p == TranslatePass(base.lines, m.map, io)
    IN IF ~Succeeded(m.outcome)
       THEN [localized |-> localized, cache |-> m.cache, langFile |-> m.langFile,
             mapFile |-> m.mapFile, outcome |-> m.outcome]
       ELSE IF LocalizedIsFresh(localized, base)
       THEN [localized |-> localized, cache |-> m.cache, langFile |-> m.langFile,
             mapFile |-> m.mapFile, outcome |-> "cached"]
       ELSE [localized |-> MkFile(p.out, t, FALSE), cache |-> m.cache, langFile |-> m.langFile,
             mapFile |-> m.mapFile,
             outcome |-> IF p.err = "none" THEN "ok"
                         ELSE IF p.err = "OSError" THEN "KaikkiDownloadError" ELSE p.err]

\* Builder._ensure_translated_glosses after its test of the output code
Builder_translate(out_lang, base, localized, cache, langFile, body, net, mapFile, readFails, io, t) ==
    LET m == Builder_load_translation_map(Pivot, out_lang, cache, langFile, body, net,
                                          mapFile, readFails, t)
        p == Builder_TranslatePass(base.lines, m.map, io)
    IN IF ~Succeeded(m.outcome)
       THEN [localized |-> localized, cache |-> m.cache, langFile |-> m.langFile,
             mapFile |-> m.mapFile, outcome |-> m.outcome]
       ELSE IF LocalizedIsFresh(localized, base)
       THEN [localized |-> localized, cache |-> m.cache, langFile |-> m.langFile,
             mapFile |-> m.mapFile, outcome |-> "cached"]
       ELSE [localized |-> MkFile(p.out, t, FALSE), cache |-> m.cache, langFile |-> m.langFile,
             mapFile |-> m.mapFile, outcome |-> IF p.err = "none" THEN "ok" ELSE p.err]

\* Builder._ensure_translated_glosses with the test of the output code left out
Builder_ensure_translated_glosses_NoGuard(out_lang, base, localized, cache, langFile, body, net, mapFile, readFails, io, t) ==
    Builder_translate(out_lang, base, localized, cache, langFile, body, net, mapFile,
                      readFails, io, t)

\* Builder._ensure_translated_glosses: the base path comes back when the output
\* code is "en"
Builder_ensure_translated_glosses(out_lang, base, localized, cache, langFile, body, net, mapFile, readFails, io, t) ==
    IF LangMeta(out_lang) = "en"
    THEN [localized |-> localized, cache |-> cache, langFile |-> langFile,
          mapFile |-> mapFile, outcome |-> "base"]
    ELSE Builder_translate(out_lang, base, localized, cache, langFile, body, net, mapFile,
                           readFails, io, t)

\* the base file of the model: filtered/<slug>.jsonl of one language
BaseSlug == Slugify(SerboCroatian)

\* <stem>__to_<suffix>.jsonl
LocalizedName(client, target_lang) ==
    IF client = "KaikkiClient"
    THEN <<BaseSlug, KaikkiSlug(CanonicalLanguage(target_lang))>>
    ELSE <<BaseSlug, <<LangMeta(target_lang)>>>>

Targets == {English, Russian}
LocalizedNames == {LocalizedName(c, T) : c \in Clients, T \in Targets}

\* the valid non-blank lines of a file
ValidLines(lines) == SelectSeq(lines, LAMBDA l : l.kind = "json")

\* the points at which a write to the localized file can fail: before entry
\* number io + 1 is written; -1 is never
WriteFailures(base) == (-1)..(Len(ValidLines(base.lines)) - 1)

\* reading the dump of the pivot language can fail when it is read at all
ReadFailures(cache, key) == IF key \in DOMAIN cache THEN {FALSE} ELSE BOOLEAN

\* KaikkiClient.ensure_translated_glosses(base, "English", T)
EnsureTranslatedGlosses(T) ==
    LET slug == KaikkiSlug(Pivot)
        name == MapName("KaikkiClient", Pivot, T)
        lname == LocalizedName("KaikkiClient", T)
    IN \E net \in PivotNet,
          readFails \in ReadFailures(translationCache["KaikkiClient"],
                                     <<LowerName(CanonicalLanguage(Pivot)),
                                       LowerName(CanonicalLanguage(T))>>),
          io \in WriteFailures(filteredFiles[BaseSlug]) :
         LET r == ensure_translated_glosses(Pivot, T, filteredFiles[BaseSlug],
                                            localizedFiles[lname],
                                            translationCache["KaikkiClient"], langFiles[slug],
                                            serverLang[slug], net, mapFiles[name], readFails,
                                            io, clock + 1)
             changed == \/ r.langFile # langFiles[slug]
                        \/ r.mapFile # mapFiles[name]
                        \/ r.localized # localizedFiles[lname]
         IN /\ changed => clock < MaxClock
            /\ langFiles' = [langFiles EXCEPT ![slug] = r.langFile]
            /\ mapFiles' = [mapFiles EXCEPT ![name] = r.mapFile]
            /\ translationCache' = [translationCache EXCEPT !["KaikkiClient"] = r.cache]
            /\ localizedFiles' = [localizedFiles EXCEPT ![lname] = r.localized]
            /\ clock' = IF changed THEN clock + 1 ELSE clock
            /\ ret' = Ret("ensure_translated_glosses", T, r.outcome, lname, 0, FALSE, FALSE)
            /\ UNCHANGED <<serverRaw, serverLang, rawFile, filteredFiles, metaFiles, tmpFiles,
                           arg, result, done, otherVars>>

\* Builder._ensure_translated_glosses(base, in_lang, T)
BuilderEnsureTranslatedGlosses(T) ==
    LET slug == KaikkiSlug(Pivot)
        name == MapName("Builder", Pivot, T)
        lname == LocalizedName("Builder", T)
    IN \E net \in PivotNet,
          readFails \in ReadFailures(translationCache["Builder"],
                                     <<LowerName(Pivot), LowerName(T)>>),
          io \in WriteFailures(filteredFiles[BaseSlug]) :
         LET r == Builder_ensure_translated_glosses(T, filteredFiles[BaseSlug],
                                                    localizedFiles[lname],
                                                    translationCache["Builder"],
                                                    langFiles[slug], serverLang[slug], net,
                                                    mapFiles[name], readFails, io, clock + 1)
             changed == \/ r.langFile # langFiles[slug]
                        \/ r.mapFile # mapFiles[name]
                        \/ r.localized # localizedFiles[lname]
         IN /\ changed => clock < MaxClock
            /\ langFiles' = [langFiles EXCEPT ![slug] = r.langFile]
            /\ mapFiles' = [mapFiles EXCEPT ![name] = r.mapFile]
            /\ translationCache' = [translationCache EXCEPT !["Builder"] = r.cache]
            /\ localizedFiles' = [localizedFiles EXCEPT ![lname] = r.localized]
            /\ clock' = IF changed THEN clock + 1 ELSE clock
            /\ ret' = Ret("Builder._ensure_translated_glosses", T, r.outcome, lname, 0,
                          FALSE, FALSE)
            /\ UNCHANGED <<serverRaw, serverLang, rawFile, filteredFiles, metaFiles, tmpFiles,
                           arg, result, done, otherVars>>

(***************************************************************************)
(* SpecGloss: a base file of a bounded set of lines, retargeted to English *)
(* and to Russian by both implementations.                                 *)
(***************************************************************************)
GlossLineSet ==
    {Blank, Bad,
     Entry(SerboCroatian, NoName, Tx, <<Sense(<<>>, <<Ta>>, <<>>, <<>>)>>)}

PivotDump ==
    <<Entry(NoName, NoName, Ta, <<Sense(<<>>, <<>>, <<>>,
                                        <<Translation(Russian, Ty), Translation(English, Tb)>>)>>)>>

InitGloss ==
    /\ serverRaw = <<>>
    /\ serverLang = [s \in KaikkiSlugs |-> PivotDump]
    /\ rawFile = NoFile
    /\ langFiles = [s \in KaikkiSlugs |-> NoFile]
    /\ \E lines \in SeqsUpTo(GlossLineSet, MaxLines) :
          filteredFiles = [s \in Slugs |-> IF s = BaseSlug THEN MkFile(lines, 0, FALSE) ELSE NoFile]
    /\ metaFiles = [s \in Slugs |-> NoMeta]
    /\ tmpFiles = [s \in Slugs |-> NoFile]
    /\ localizedFiles = [n \in LocalizedNames |-> NoFile]
    /\ mapFiles = [n \in MapNames |-> NoMapFile]
    /\ translationCache = [c \in Clients |-> <<>>]
    /\ arg = <<>>
    /\ result = <<>>
    /\ clock = 0
    /\ ret = NoRet
    /\ NoOtherState
    /\ done = <<>>

NextGloss ==
    \/ \E T \in Targets : EnsureTranslatedGlosses(T)
    \/ \E T \in Targets : BuilderEnsureTranslatedGlosses(T)

SpecGloss == InitGloss /\ [][NextGloss]_vars

TranslateOps == {"ensure_translated_glosses", "Builder._ensure_translated_glosses"}

\* C7: a localized file returned from the mtime cache holds one rewritten entry
\* for every valid non-blank line of the base file, whatever went wrong in the
\* calls before.
C7_CachedLocalizedIsComplete ==
    (ret.op \in TranslateOps /\ ret.outcome = "cached") =>
        LET base == ValidLines(filteredFiles[BaseSlug].lines)
            localized == localizedFiles[ret.slug].lines
        IN /\ Len(localized) = Len(base)
           /\ \A i \in 1..Len(base) : localized[i].word = base[i].word

\* C9 as stated: no call of ensure_translated_glosses with an output language
\* of ISO code "en", by either implementation, does anything but return the
\* base path: no localized file, no translation map loaded or downloaded.
C9_NoOpForEnglish ==
    [][(ret'.op \in TranslateOps /\ LangMeta(ret'.lang) = "en") =>
          /\ ret'.outcome = "base"
          /\ UNCHANGED <<localizedFiles, mapFiles, translationCache, langFiles>>]_vars

\* C9 amended: Builder._ensure_translated_glosses with an output language of
\* ISO code "en" returns the base path, writes no localized file and loads or
\* downloads no translation map; with any other output code it does not return
\* the base path.
C9_BuilderNoOpForEnglish ==
    [][ret'.op = "Builder._ensure_translated_glosses" =>
          IF LangMeta(ret'.lang) = "en"
          THEN /\ ret'.outcome = "base"
               /\ UNCHANGED <<localizedFiles, mapFiles, translationCache, langFiles>>
          ELSE ret'.outcome # "base"]_vars

\* C9 witness: the Builder has returned the base path for English although
\* nothing is cached: no dump of the pivot language, no map, no localized file
C9_Witness ==
    /\ ret.op = "Builder._ensure_translated_glosses"
    /\ ret.lang = English
    /\ ret.outcome = "base"
    /\ ~langFiles[KaikkiSlug(Pivot)].exists
    /\ \A n \in LocalizedNames : ~localizedFiles[n].exists
    /\ Len(ValidLines(filteredFiles[BaseSlug].lines)) > 0

\* C11: no call past the raw-dump filter raises KaikkiParseError: a call of
\* ensure_translated_glosses or load_translation_map passes over the invalid
\* lines it reads, and a translation that completes has written one entry for
\* every valid line of the base file.
C11_ParseErrorOnlyFromFilter ==
    /\ ret.op \in TranslateOps \cup LoadOps => ret.outcome # "KaikkiParseError"
    /\ (ret.op \in TranslateOps /\ ret.outcome = "ok") =>
          Len(localizedFiles[ret.slug].lines) = Len(ValidLines(filteredFiles[BaseSlug].lines))

(***************************************************************************)
(* FreeDictSource (source_freedict.py): the entries of a StarDict          *)
(* dictionary.  An entry is a record of a word and its senses; a sense has *)
(* glosses and examples.                                                   *)
(***************************************************************************)
FdSense(glosses, examples) == [glosses |-> glosses, examples |-> examples]
FdEntry(word, senses) == [word |-> word, senses |-> senses]

\* one record of the StarDict index with its definition split into glosses
StarDictRecord(word, glosses) == [word |-> word, glosses |-> glosses]

\* FreeDictSource.CYRILLIC_TO_LATIN, on the letters the model uses
CYRILLIC_TO_LATIN ==
    [c \in {"cy_ka", "cy_u", "cy_lje", "CY_KA", "cy_de", "cy_em"} |->
        CASE c = "cy_ka" -> <<"k">> [] c = "cy_u" -> <<"u">> [] c = "cy_lje" -> <<"l", "j">>
          [] c = "CY_KA" -> <<"K">> [] c = "cy_de" -> <<"d">> [] c = "cy_em" -> <<"m">>]

\* the characters of the Cyrillic block the model uses, by name ("cy_ka" is
\* U+043A); "cy_ya" (U+044F) is not a letter of the Serbian alphabet
CyrillicChars == {"cy_ka", "cy_u", "cy_lje", "CY_KA", "cy_ya", "cy_de", "cy_em"}

HasCyrillic(text) == \E i \in 1..Len(text) : text[i] \in CyrillicChars

RECURSIVE transliterate_serbian_cyrillic(_)
\* FreeDictSource._transliterate_serbian_cyrillic
transliterate_serbian_cyrillic(text) ==
    IF text = <<>> THEN <<>>
    ELSE (IF Head(text) \in DOMAIN CYRILLIC_TO_LATIN
          THEN CYRILLIC_TO_LATIN[Head(text)] ELSE <<Head(text)>>)
         \o transliterate_serbian_cyrillic(Tail(text))

\* FreeDictSource._apply_transliteration
apply_transliteration(entry, lang) ==
    IF lang # Serbian THEN entry
    ELSE FdEntry(transliterate_serbian_cyrillic(entry.word),
                 [i \in 1..Len(entry.senses) |->
                    FdSense([j \in 1..Len(entry.senses[i].glosses) |->
                                transliterate_serbian_cyrillic(entry.senses[i].glosses[j])],
                            entry.senses[i].examples)])

\* FreeDictSource._convert_to_kaikki_format
convert_to_kaikki_format(record) ==
    FdEntry(record.word, <<FdSense(record.glosses, <<>>)>>)

\* FreeDictSource.entry_has_content
fd_entry_has_content(entry) ==
    \E i \in 1..Len(entry.senses) : \E j \in 1..Len(entry.senses[i].glosses) :
        Strip(entry.senses[i].glosses[j]) # <<>>

RECURSIVE DefinitionsDict(_, _)
\* definitions[word] = definition in _read_definitions: the dict keeps one item
\* for a word, at the place of its first record, with the definition of its last
DefinitionsDict(records, items) ==
    IF records = <<>> THEN items
    ELSE DefinitionsDict(Tail(records),
            IF \E i \in 1..Len(items) : items[i].word = Head(records).word
            THEN [i \in 1..Len(items) |->
                    IF items[i].word = Head(records).word THEN Head(records)
                    ELSE items[i]]
            ELSE Append(items, Head(records)))

\* FreeDictSource._parse_stardict_files, records being the index records whose
\* definition could be read
parse_stardict_files(records) ==
    SelectSeq([i \in 1..Len(DefinitionsDict(records, <<>>)) |->
                  convert_to_kaikki_format(DefinitionsDict(records, <<>>)[i])],
              fd_entry_has_content)

\* FreeDictSource._fetch_and_parse_dict once the dictionary is on disk
ParsedEntries(lang_name, records) ==
    LET entries == parse_stardict_files(records)
    IN IF lang_name = Serbian
       THEN [i \in 1..Len(entries) |-> apply_transliteration(entries[i], lang_name)]
       ELSE entries

RECURSIVE MergeSenses(_, _)
\* the loop "Add new senses" of _merge_entries_list
MergeSenses(target_senses, incoming_senses) ==
    IF incoming_senses = <<>> THEN target_senses
    ELSE LET sense == Head(incoming_senses)
             existing_glosses == {target_senses[i].glosses : i \in 1..Len(target_senses)}
         IN IF sense.glosses \notin existing_glosses
            THEN MergeSenses(Append(target_senses, sense), Tail(incoming_senses))
            ELSE MergeSenses(target_senses, Tail(incoming_senses))

RECURSIVE merge_entries_list(_, _)
\* FreeDictSource._merge_entries_list; word_index holds the last entry of each word
merge_entries_list(target, incoming) ==
    IF incoming = <<>> THEN target
    ELSE LET entry == Head(incoming)
             word_lower == Lower(entry.word)
             hits == {i \in 1..Len(target) : Lower(target[i].word) = word_lower}
         IN IF word_lower = <<>> THEN merge_entries_list(target, Tail(incoming))
            ELSE IF hits # {}
            THEN LET target_idx == CHOOSE i \in hits : \A j \in hits : j <= i
                     merged == FdEntry(target[target_idx].word,
                                       MergeSenses(target[target_idx].senses, entry.senses))
                 IN merge_entries_list([target EXCEPT ![target_idx] = merged],
                                       Tail(incoming))
            ELSE merge_entries_list(Append(target, entry), Tail(incoming))

RECURSIVE AllGlosses(_)
\* the glosses of every sense of an entry, in order
AllGlosses(senses) ==
    IF senses = <<>> THEN <<>> ELSE Head(senses).glosses \o AllGlosses(Tail(senses))

RECURSIVE PivotMap(_, _)
\* the loop "Build pivot translation map" of _try_chained_translation
PivotMap(second_pair_entries, pivot_map) ==
    IF second_pair_entries = <<>> THEN pivot_map
    ELSE LET entry == Head(second_pair_entries)
             glosses == AllGlosses(entry.senses)
         IN PivotMap(Tail(second_pair_entries),
                     IF glosses # <<>> THEN Put(pivot_map, Lower(entry.word), glosses)
                     ELSE pivot_map)

\* final_glosses of one entry of the first pair
FinalGlosses(entry, pivot_map) ==
    LET sense_glosses == AllGlosses(entry.senses)
    IN UNION {MapGet(pivot_map, Strip(Lower(sense_glosses[i]))) :
                i \in 1..Len(sense_glosses)}

\* the loop "Build chained entries" of _try_chained_translation
ChainedEntries(first_pair_entries, second_pair_entries) ==
    LET pivot_map == PivotMap(second_pair_entries, <<>>)
        chained_entry(entry) ==
            FdEntry(entry.word, <<FdSense(Sorted(FinalGlosses(entry, pivot_map)), <<>>)>>)
    IN [i \in 1..Len(SelectSeq(first_pair_entries,
                               LAMBDA e : FinalGlosses(e, pivot_map) # {})) |->
          chained_entry(SelectSeq(first_pair_entries,
                                  LAMBDA e : FinalGlosses(e, pivot_map) # {})[i])]

(***************************************************************************)
(* FreeDictSource: downloads and the cache under <cache_dir>/freedict.     *)
(* A dictionary pair is named by its two languages.  The server offers a   *)
(* pair or not, and packs its StarDict files at the root of the archive,   *)
(* in a subdirectory, or not at all.  On disk a pair has an archive under  *)
(* downloads/ and a version directory.                                     *)
(***************************************************************************)
\* lang_pair = f"{in_code}-{out_code}"
lang_pair(in_lang, out_lang) == <<in_lang, out_lang>>

ServerKinds == {"absent", "root", "sub", "nofiles"}
NetKinds == {"ok", "down", "break"}

NoPairDisk == [archive |-> "none", version |-> "none"]
NoFdFile == [exists |-> FALSE, entries |-> <<>>]
MkFdFile(entries) == [exists |-> TRUE, entries |-> entries]

\* FreeDictSource.RELATED_LANGUAGES
RELATED_LANGUAGES(lang) == IF lang = Serbian THEN <<Croatian>> ELSE <<>>

\* the cache keys of get_entries: "<in>__<out>[__<related>]", "..__chained", "..__empty"
FilteredName(in_lang, out_lang, kind) == <<in_lang, out_lang, kind>>

\* FreeDictSource._has_stardict_files(version directory)
has_stardict_files(version) == version = "root"

\* FreeDictSource._find_stardict_dir(version directory)
find_stardict_dir(version) ==
    CASE version = "root" -> "version" [] version = "sub" -> "subdir" [] OTHER -> "none"

\* FreeDictSource._download_dictionary: server is what the site offers for the
\* pair, d the pair's files on disk, net what the network does during the call
download_dictionary(server, d, net) ==
    IF has_stardict_files(d.version)
    THEN [d |-> d, res |-> "ok", dir |-> "version", requests |-> FALSE]
    ELSE IF net = "down" \/ server.kind = "absent"
    THEN [d |-> d, res |-> "FreeDictDownloadError", dir |-> "none", requests |-> TRUE]
    ELSE IF d.archive = "none" /\ net = "break"
    THEN [d |-> [d EXCEPT !.archive = "partial"], res |-> "RequestException",
          dir |-> "none", requests |-> TRUE]
    ELSE LET archive == IF d.archive = "none" THEN "full" ELSE d.archive
             made == IF d.version = "none" THEN "empty" ELSE d.version
             version == IF archive = "partial" \/ server.kind = "nofiles" THEN made
                        ELSE server.kind
             dir == find_stardict_dir(version)
         IN [d |-> [archive |-> archive, version |-> version],
             res |-> IF archive = "partial" \/ dir = "none"
                     THEN "FreeDictParseError" ELSE "ok",
             dir |-> IF archive = "partial" THEN "none" ELSE dir,
             requests |-> TRUE]

\* the element of a one-element set: binds the result of a call once
Only(S) == CHOOSE x \in S : TRUE

\* FreeDictSource._fetch_and_parse_dict
fetch_and_parse_dict(lang_name, server, d, net) ==
    Only({[d |-> dl.d, res |-> dl.res, dir |-> dl.dir, requests |-> dl.requests,
           entries |-> IF dl.res = "ok" THEN ParsedEntries(lang_name, server.records)
                       ELSE <<>>] :
          dl \in {download_dictionary(server, d, net)}})

Attempt(step, pair, f) == [step |-> step, pair |-> pair, res |-> f.res, dir |-> f.dir]

RECURSIVE MergeRelated(_, _, _, _, _)
\* the loop over related_langs of _get_direct_pair; st is the state of the call
MergeRelated(related_langs, out_lang, servers, nets, st) ==
    IF related_langs = <<>> \/ st.res # "ok" THEN st
    ELSE LET pair == lang_pair(Head(related_langs), out_lang)
         IN MergeRelated(Tail(related_langs), out_lang, servers, nets,
                Only({[disk |-> [st.disk EXCEPT !.pairs[pair] = f.d],
                       trace |-> Append(st.trace, Attempt("related", pair, f)),
                       entries |-> IF f.res = "ok"
                                   THEN merge_entries_list(st.entries, f.entries)
                                   ELSE st.entries,
                       res |-> IF f.res \in {"ok", "FreeDictDownloadError",
                                             "FreeDictParseError"}
                               THEN "ok" ELSE f.res] :
                      f \in {fetch_and_parse_dict(Head(related_langs), servers[pair],
                                                  st.disk.pairs[pair], nets[pair])}}))

\* FreeDictSource._get_direct_pair
get_direct_pair(in_lang, out_lang, servers, disk, nets) ==
    LET pair == lang_pair(in_lang, out_lang)
        output_path == FilteredName(in_lang, out_lang, "direct")
        main == Only({[disk |-> [disk EXCEPT !.pairs[pair] = f.d],
                       trace |-> <<Attempt("direct", pair, f)>>,
                       entries |-> f.entries, res |-> f.res] :
                      f \in {fetch_and_parse_dict(in_lang, servers[pair],
                                                  disk.pairs[pair], nets[pair])}})
    IN Only({IF st.res # "ok"
             THEN [disk |-> st.disk, res |-> st.res, path |-> "none", count |-> 0,
                   trace |-> st.trace]
             ELSE [disk |-> [st.disk EXCEPT !.filtered[output_path] = MkFdFile(st.entries)],
                   res |-> "ok", path |-> output_path, count |-> Len(st.entries),
                   trace |-> st.trace] :
             st \in {MergeRelated(RELATED_LANGUAGES(in_lang), out_lang, servers, nets,
                                  main)}})

\* the second leg of _try_chained_translation and its result, first being the
\* parsed first leg
chain_second_leg(in_lang, out_lang, servers, disk, nets, first) ==
    LET cached_path == FilteredName(in_lang, out_lang, "chained")
        pair1 == lang_pair(in_lang, English)
        pair2 == lang_pair(English, out_lang)
        disk1 == [disk EXCEPT !.pairs[pair1] = first.d]
    IN Only({IF second.res # "ok"
             THEN [disk |-> [disk1 EXCEPT !.pairs[pair2] = second.d],
                   res |-> "FreeDictChainError", path |-> "none",
                   trace |-> <<Attempt("leg1", pair1, first),
                               Attempt("leg2", pair2, second)>>]
             ELSE [disk |-> [disk1 EXCEPT !.pairs[pair2] = second.d,
                                          !.filtered[cached_path] =
                                              MkFdFile(ChainedEntries(first.entries,
                                                                      second.entries))],
                   res |-> "ok", path |-> cached_path,
                   trace |-> <<Attempt("leg1", pair1, first),
                               Attempt("leg2", pair2, second)>>] :
             second \in {fetch_and_parse_dict(English, servers[pair2],
                                              disk1.pairs[pair2], nets[pair2])}})

\* FreeDictSource._try_chained_translation
try_chained_translation(in_lang, out_lang, servers, disk, nets) ==
    LET pivot_lang == English
        cached_path == FilteredName(in_lang, out_lang, "chained")
        pair1 == lang_pair(in_lang, pivot_lang)
    IN IF disk.filtered[cached_path].exists
       THEN [disk |-> disk, res |-> "ok", path |-> cached_path,
             trace |-> <<[step |-> "chain_cached", pair |-> <<>>, res |-> "ok",
                          dir |-> "none"]>>]
       ELSE Only({IF first.res # "ok"
                  THEN [disk |-> [disk EXCEPT !.pairs[pair1] = first.d],
                        res |-> "FreeDictChainError", path |-> "none",
                        trace |-> <<Attempt("leg1", pair1, first)>>]
                  ELSE chain_second_leg(in_lang, out_lang, servers, disk, nets, first) :
                  first \in {fetch_and_parse_dict(in_lang, servers[pair1],
                                                  disk.pairs[pair1], nets[pair1])}})

\* the result of _get_direct_or_chained when the chain was run after direct
AfterChain(direct, chained) ==
    [disk |-> chained.disk, res |-> chained.res, path |-> chained.path,
     count |-> IF chained.res = "ok"
               THEN Len(chained.disk.filtered[chained.path].entries) ELSE 0,
     trace |-> direct.trace \o chained.trace]

\* _get_direct_or_chained starting the chain after any failure of the direct pair
get_direct_or_chained_AnyFailure(in_lang, out_lang, servers, disk, nets) ==
    Only({IF direct.res = "ok" THEN direct
          ELSE Only({AfterChain(direct, chained) :
                     chained \in {try_chained_translation(in_lang, out_lang, servers,
                                                          direct.disk, nets)}}) :
          direct \in {get_direct_pair(in_lang, out_lang, servers, disk, nets)}})

\* FreeDictSource._get_direct_or_chained
get_direct_or_chained(in_lang, out_lang, servers, disk, nets) ==
    Only({IF direct.res # "FreeDictDownloadError" THEN direct
          ELSE Only({AfterChain(direct, chained) :
                     chained \in {try_chained_translation(in_lang, out_lang, servers,
                                                          direct.disk, nets)}}) :
          direct \in {get_direct_pair(in_lang, out_lang, servers, disk, nets)}})

\* FreeDictSource.get_entries with _create_empty_result
get_entries(in_lang, out_lang, servers, disk, nets) ==
    LET empty_path == FilteredName(in_lang, out_lang, "empty")
    IN Only({IF r.res \in {"FreeDictDownloadError", "FreeDictChainError"}
             THEN [disk |-> [r.disk EXCEPT !.filtered[empty_path] =
                                MkFdFile(r.disk.filtered[empty_path].entries)],
                   res |-> "ok", path |-> empty_path, count |-> 0, trace |-> r.trace,
                   caught |-> r.res]
             ELSE [disk |-> r.disk, res |-> r.res, path |-> r.path, count |-> r.count,
                   trace |-> r.trace, caught |-> "none"] :
             r \in {get_direct_or_chained(in_lang, out_lang, servers, disk, nets)}})

(***************************************************************************)
(* The runs of FreeDictSource the model explores: Serbian to Russian, with *)
(* the related Croatian dictionary and the two legs of the English chain.  *)
(***************************************************************************)
FdIn == Serbian
FdOut == Russian
FdPairs ==
    {lang_pair(FdIn, FdOut), lang_pair(Croatian, FdOut),
     lang_pair(FdIn, English), lang_pair(English, FdOut)}
FdNames == {FilteredName(FdIn, FdOut, k) : k \in {"direct", "chained", "empty"}}

\* the StarDict records each dictionary of the site holds
FdRecords(pair) ==
    CASE pair = lang_pair(FdIn, FdOut) ->
            <<StarDictRecord(<<"cy_ka", "cy_u">>, << <<"cy_de">> >>)>>
      [] pair = lang_pair(Croatian, FdOut) ->
            <<StarDictRecord(<<"k", "u">>, << <<"cy_em">> >>)>>
      [] pair = lang_pair(FdIn, English) ->
            <<StarDictRecord(<<"cy_ka", "cy_u">>, << <<"h">> >>)>>
      [] pair = lang_pair(English, FdOut) ->
            <<StarDictRecord(<<"h">>, << <<"cy_de">> >>)>>

\* how the site offers each pair: every way for the direct pair and the first
\* leg of the chain, in the plain way or not at all for the other two
PairKinds(pair) ==
    IF pair \in {lang_pair(FdIn, FdOut), lang_pair(FdIn, English)} THEN ServerKinds
    ELSE {"absent", "root"}

\* what the network can do that makes a difference to a download of this pair
PairNet(server, d) ==
    IF has_stardict_files(d.version) \/ server.kind = "absent" THEN {"ok"}
    ELSE IF d.archive # "none" THEN {"ok", "down"}
    ELSE NetKinds

FdNets == {nets \in [FdPairs -> NetKinds] :
              \A p \in FdPairs : nets[p] \in PairNet(fdServer[p], fdDisk.pairs[p])}

RECURSIVE FirstDirs(_, _)
\* the directory the first successful download of each pair returned
FirstDirs(trace, dirs) ==
    IF trace = <<>> THEN dirs
    ELSE LET a == Head(trace)
         IN FirstDirs(Tail(trace),
                      IF a.res = "ok" /\ a.step # "chain_cached" /\ dirs[a.pair] = "none"
                      THEN [dirs EXCEPT ![a.pair] = a.dir] ELSE dirs)

\* FreeDictSource.get_entries(in_lang, out_lang)
GetEntries(in_lang, out_lang) ==
    \E nets \in FdNets :
        \E r \in {get_entries(in_lang, out_lang, fdServer, fdDisk, nets)} :
           /\ clock < MaxClock
           /\ clock' = clock + 1
           /\ fdDisk' = r.disk
           /\ done' = FirstDirs(r.trace, done)
           /\ ret' = [op |-> "get_entries", in_lang |-> in_lang, out_lang |-> out_lang,
                      outcome |-> r.res, path |-> r.path, count |-> r.count,
                      trace |-> r.trace, caught |-> r.caught]
           /\ UNCHANGED <<serverRaw, serverLang, kaikkiDisk, glossDisk, arg, result,
                          fdServer, procs, tatoeba, capture>>

\* FreeDictSource._download_dictionary(lang_pair)
DownloadDictionary(pair) ==
    \E net \in PairNet(fdServer[pair], fdDisk.pairs[pair]) :
        \E dl \in {download_dictionary(fdServer[pair], fdDisk.pairs[pair], net)} :
           /\ clock < MaxClock
           /\ clock' = clock + 1
           /\ fdDisk' = [fdDisk EXCEPT !.pairs[pair] = dl.d]
           /\ done' = IF dl.res = "ok" /\ done[pair] = "none"
                      THEN [done EXCEPT ![pair] = dl.dir] ELSE done
           /\ ret' = [op |-> "_download_dictionary", pair |-> pair, outcome |-> dl.res,
                      dir |-> dl.dir, requests |-> dl.requests, earlier |-> done[pair]]
           /\ UNCHANGED <<serverRaw, serverLang, kaikkiDisk, glossDisk, arg, result,
                          fdServer, procs, tatoeba, capture>>

InitFreeDict ==
    /\ serverRaw = <<>>
    /\ serverLang = <<>>
    /\ rawFile = NoFile
    /\ langFiles = <<>>
    /\ filteredFiles = <<>>
    /\ metaFiles = <<>>
    /\ tmpFiles = <<>>
    /\ EmptyGlossDisk
    /\ clock = 0
    /\ ret = NoRet
    /\ done = [p \in FdPairs |-> "none"]
    /\ \E kinds \in {k \in [FdPairs -> ServerKinds] : \A p \in FdPairs : k[p] \in PairKinds(p)} :
          fdServer = [p \in FdPairs |-> [kind |-> kinds[p], records |-> FdRecords(p)]]
    /\ fdDisk = [pairs |-> [p \in FdPairs |-> NoPairDisk],
                 filtered |-> [n \in FdNames |-> NoFdFile]]
    /\ procs = <<>>
    /\ tatoeba = <<>>
    /\ capture = <<>>

NextFreeDict ==
    \/ GetEntries(FdIn, FdOut)
    \/ \E p \in FdPairs : DownloadDictionary(p)

SpecFreeDict == InitFreeDict /\ [][NextFreeDict]_vars

\* C12: get_entries never propagates a download or chain failure: when neither
\* the direct pair nor the chain through English can be obtained, the call
\* returns the empty corpus file with count 0 instead of raising.
C12_GetEntriesNeverRaises ==
    ret.op = "get_entries" =>
        /\ ret.outcome = "ok"
        /\ ret.path = FilteredName(ret.in_lang, ret.out_lang, "empty") =>
              /\ ret.count = 0
              /\ fdDisk.filtered[ret.path] = MkFdFile(<<>>)

ChainSteps(trace) ==
    {i \in 1..Len(trace) : trace[i].step \in {"leg1", "leg2", "chain_cached"}}

\* C13: a call of get_entries tries the direct pair first; it attempts the
\* chain through English only after the direct pair failed with
\* FreeDictDownloadError and never when the direct pair succeeded; and a leg
\* that fails, by a download or a parse error, is the last step of the chain
\* attempt, which ends with FreeDictChainError.
C13_DirectFirstThenChain ==
    ret.op = "get_entries" =>
        /\ ret.trace # <<>> /\ ret.trace[1].step = "direct"
        /\ ChainSteps(ret.trace) # {} => ret.trace[1].res = "FreeDictDownloadError"
        /\ ret.trace[1].res = "ok" => ChainSteps(ret.trace) = {}
        /\ \A i \in ChainSteps(ret.trace) :
              /\ i > 1
              /\ ret.trace[i].res # "ok" =>
                    i = Len(ret.trace) /\ ret.caught = "FreeDictChainError"

\* a call whose direct pair is not on the site and whose second leg is a
\* truncated archive: the chain ends with FreeDictChainError
C13_Witness ==
    /\ ret.op = "get_entries"
    /\ Len(ret.trace) = 3
    /\ ret.trace[1].res = "FreeDictDownloadError"
    /\ ret.trace[2].step = "leg1" /\ ret.trace[2].res = "ok"
    /\ ret.trace[3].step = "leg2" /\ ret.trace[3].res = "FreeDictParseError"
    /\ ret.caught = "FreeDictChainError"

(***************************************************************************)
(* The corpora FreeDictSource composes, as functions of the dictionaries   *)
(* it parsed: the direct corpus with the related language merged in, the   *)
(* chained corpus, and _merge_entries_list on entries with examples.       *)
(***************************************************************************)
Th == <<"h">>
TH == <<"H">>
Tde == <<"cy_de">>
Tem == <<"cy_em">>
Tku == <<"cy_ka", "cy_u">>
Tya == <<"cy_ya">>
TkuLatin == <<"k", "u">>

\* sequences of at most two records with different words, as a StarDict index
\* read into a dict holds them
RecordLists(S) ==
    {<<>>} \cup {<<r>> : r \in S}
           \cup {<<pr[1], pr[2]>> : pr \in {x \in S \X S : x[1].word # x[2].word}}

\* dictionaries from the input language
MainRecords ==
    {StarDictRecord(Tku, <<Th>>), StarDictRecord(Tya, <<TH>>),
     StarDictRecord(TkuLatin, <<Tb, Th>>)}
\* dictionaries from the related language
RelatedRecords ==
    {StarDictRecord(TkuLatin, <<Tem>>), StarDictRecord(Tku, <<Tde>>)}
\* dictionaries from English
SecondRecords ==
    {StarDictRecord(Th, <<Tem, Tde>>), StarDictRecord(TH, <<Tde>>),
     StarDictRecord(Tb, <<Tem>>)}

\* entries with examples, as tests/test_builder.py merges them
MergeTargets ==
    {<<>>,
     <<FdEntry(Ta, <<FdSense(<<Tx>>, <<"one">>)>>)>>,
     <<FdEntry(Ta, <<FdSense(<<Tx>>, <<"one">>)>>), FdEntry(Tb, <<>>)>>}
MergeIncoming ==
    {<<>>,
     <<FdEntry(Ta, <<FdSense(<<Tx>>, <<"two">>)>>), FdEntry(Tb, <<>>)>>,
     <<FdEntry(TA, <<FdSense(<<Ty>>, <<"one">>)>>)>>,
     <<FdEntry(Tx, <<FdSense(<<Ty>>, <<"two">>)>>)>>}

InitCorpus ==
    /\ serverRaw = <<>>
    /\ serverLang = <<>>
    /\ rawFile = NoFile
    /\ langFiles = <<>>
    /\ filteredFiles = <<>>
    /\ metaFiles = <<>>
    /\ tmpFiles = <<>>
    /\ localizedFiles = <<>>
    /\ mapFiles = <<>>
    /\ translationCache = <<>>
    /\ \E in_lang \in {Serbian, Croatian}, main \in RecordLists(MainRecords),
          related \in RecordLists(RelatedRecords), second \in RecordLists(SecondRecords),
          target \in MergeTargets, incoming \in MergeIncoming :
          arg = [in_lang |-> in_lang, main |-> main, related |-> related,
                 second |-> second, target |-> target, incoming |-> incoming]
    /\ result = <<>>
    /\ clock = 0
    /\ ret = NoRet
    /\ done = <<>>
    /\ NoOtherState

CorpusUnchanged ==
    UNCHANGED <<serverRaw, serverLang, kaikkiDisk, glossDisk, arg, clock, done, otherVars>>

\* the entries _get_direct_pair writes when every dictionary is available
DirectEntries(in_lang, main, related) ==
    IF RELATED_LANGUAGES(in_lang) = <<>> THEN ParsedEntries(in_lang, main)
    ELSE merge_entries_list(ParsedEntries(in_lang, main),
                            ParsedEntries(RELATED_LANGUAGES(in_lang)[1], related))

\* _get_direct_pair on the dictionaries arg.main and arg.related
DirectCorpus ==
    /\ ret.op = "none"
    /\ result' = DirectEntries(arg.in_lang, arg.main, arg.related)
    /\ ret' = [op |-> "_get_direct_pair"]
    /\ CorpusUnchanged

\* _try_chained_translation on the dictionaries arg.main and arg.second
ChainedCorpus ==
    /\ ret.op = "none"
    /\ result' = ChainedEntries(ParsedEntries(arg.in_lang, arg.main),
                                ParsedEntries(English, arg.second))
    /\ ret' = [op |-> "_try_chained_translation"]
    /\ CorpusUnchanged

\* _merge_entries_list(arg.target, arg.incoming)
MergeEntriesList ==
    /\ ret.op = "none"
    /\ result' = merge_entries_list(arg.target, arg.incoming)
    /\ ret' = [op |-> "_merge_entries_list"]
    /\ CorpusUnchanged

NextCorpus == DirectCorpus \/ ChainedCorpus \/ MergeEntriesList

SpecCorpus == InitCorpus /\ [][NextCorpus]_vars

\* the glosses of the entries of a dictionary whose headword is the text
GlossesUnder(entries, headword) ==
    UNION {Range(AllGlosses(entries[i].senses)) :
             i \in {j \in 1..Len(entries) : entries[j].word = headword}}

\* the glosses of an entry that are, lowercased and trimmed, headwords of the dictionary
MatchingGlosses(entry, entries) ==
    {g \in Range(AllGlosses(entry.senses)) :
        \E i \in 1..Len(entries) : entries[i].word = Strip(Lower(g))}

\* C14: the chained corpus holds, in the order of the first dictionary, exactly
\* its entries with a gloss that (lowercased, trimmed) is a headword of the
\* second dictionary; each keeps the headword it has in the index and its
\* glosses are the sorted union of the second dictionary's glosses of all its
\* matching glosses.
C14_ChainedCorpus ==
    ret.op = "_try_chained_translation" =>
        LET first == parse_stardict_files(arg.main)
            second == parse_stardict_files(arg.second)
            kept == SelectSeq(first, LAMBDA e : MatchingGlosses(e, second) # {})
        IN result =
             [i \in 1..Len(kept) |->
                FdEntry(kept[i].word,
                        <<FdSense(Sorted(UNION {GlossesUnder(second, Strip(Lower(g))) :
                                                  g \in MatchingGlosses(kept[i], second)}),
                                  <<>>)>>)]

RECURSIVE AllExamples(_)
\* the examples of every sense of an entry, in order
AllExamples(senses) ==
    IF senses = <<>> THEN <<>> ELSE Head(senses).examples \o AllExamples(Tail(senses))

\* the examples of the entries of a list that have the merge key
ExamplesUnder(entries, key) ==
    UNION {Range(AllExamples(entries[i].senses)) :
             i \in {j \in 1..Len(entries) : Lower(entries[j].word) = key}}

NoDuplicates(seq) == \A i, j \in 1..Len(seq) : seq[i] = seq[j] => i = j

C16_NoCyrillicHeadword ==
    (ret.op \in {"_get_direct_pair", "_try_chained_translation"} /\ arg.in_lang = Serbian) =>
        \A i \in 1..Len(result) : ~HasCyrillic(result[i].word)

(***************************************************************************)
(* TatoebaExamples._load_pairs (tatoeba.py).  The downloads are given as   *)
(* the linked pairs of sentences of each source language, in the order of  *)
(* the links file.  A Python set is iterated in an order that differs from *)
(* one interpreter run to the next, so every such order is a choice.       *)
(***************************************************************************)
\* TatoebaExamples._expand_language("sr")
SourceLangs == {"srp", "hrv"}
Runs == {"run1", "run2"}

\* _SentencePair
SentencePair(source, target) == [source |-> source, target |-> target]

\* TatoebaExamples._normalise on a text of letters
Normalise(text) == Strip(Lower(text))

\* the sort key (pair.source.lower(), pair.target.lower()) compared as tuples
PairKeyLess(p, q) ==
    \/ TextLess(Lower(p.source), Lower(q.source))
    \/ Lower(p.source) = Lower(q.source) /\ TextLess(Lower(p.target), Lower(q.target))

\* the orders in which a set can be iterated
IterationOrders(S) ==
    {f \in [1..Cardinality(S) -> S] : \A x \in S : \E i \in 1..Cardinality(S) : f[i] = x}

\* sorted(pair_set, key=...): a stable sort of the set in its iteration order
SortedPairSets(pair_set) ==
    {seq \in IterationOrders(pair_set) :
        \A i, j \in 1..Len(seq) : i < j => ~PairKeyLess(seq[j], seq[i])}

RECURSIVE LinkedInOrder(_, _)
\* the pairs the loop over self._source_langs meets, language after language
LinkedInOrder(lang_order, linked) ==
    IF lang_order = <<>> THEN <<>>
    ELSE linked[Head(lang_order)] \o LinkedInOrder(Tail(lang_order), linked)

RECURSIVE SeenKeys(_, _)
\* the keys of the dict seen, in the order of their insertion
SeenKeys(pairs, keys) ==
    IF pairs = <<>> THEN keys
    ELSE LET normalised_key == Normalise(Head(pairs).source)
         IN SeenKeys(Tail(pairs),
                     IF normalised_key = <<>> \/ normalised_key \in Range(keys) THEN keys
                     ELSE Append(keys, normalised_key))

\* seen[key]
SeenSet(pairs, key) == {p \in Range(pairs) : Normalise(p.source) = key}

\* the dict pairs that _load_pairs builds and dumps, for one iteration order of
\* the source languages and one sorted list per key
BuildPairs(lang_order, linked, ordered) ==
    LET met == LinkedInOrder(lang_order, linked)
        keys == SeenKeys(met, <<>>)
    IN [i \in 1..Len(keys) |-> [key |-> keys[i], examples |-> ordered[keys[i]]]]

NoPairsFile == [exists |-> FALSE, pairs |-> <<>>]
NoInstance == [pairs_cache |-> NoPairsFile, loaded |-> FALSE, pairs |-> <<>>]

\* TatoebaExamples._load_pairs of the instance of a run
LoadPairs(r) ==
    LET me == tatoeba[r]
        all == LinkedInOrder(<<"srp", "hrv">>, arg)
        keys == Range(SeenKeys(all, <<>>))
    IN /\ IF me.loaded
          THEN /\ ret' = [op |-> "_load_pairs", run |-> r, pairs |-> me.pairs]
               /\ UNCHANGED tatoeba
          ELSE IF me.pairs_cache.exists
          THEN /\ tatoeba' = [tatoeba EXCEPT ![r].loaded = TRUE,
                                             ![r].pairs = me.pairs_cache.pairs]
               /\ ret' = [op |-> "_load_pairs", run |-> r, pairs |-> me.pairs_cache.pairs]
          ELSE \E lang_order \in IterationOrders(SourceLangs) :
               \E ordered \in [keys -> UNION {SortedPairSets(SeenSet(all, k)) : k \in keys}] :
                  /\ \A k \in keys : ordered[k] \in SortedPairSets(SeenSet(all, k))
                  /\ LET pairs == BuildPairs(lang_order, arg, ordered)
                     IN /\ tatoeba' = [tatoeba EXCEPT ![r] =
                                          [pairs_cache |-> [exists |-> TRUE, pairs |-> pairs],
                                           loaded |-> TRUE, pairs |-> pairs]]
                        /\ ret' = [op |-> "_load_pairs", run |-> r, pairs |-> pairs]
       /\ UNCHANGED <<serverRaw, serverLang, kaikkiDisk, glossDisk, arg, result, clock,
                      done, fdServer, fdDisk, procs, capture>>

\* TatoebaExamples.__init__ on the cache directory of a run: a new process
NewInstance(r) ==
    /\ tatoeba[r].loaded
    /\ tatoeba' = [tatoeba EXCEPT ![r].loaded = FALSE, ![r].pairs = <<>>]
    /\ ret' = [op |-> "__init__", run |-> r, pairs |-> <<>>]
    /\ UNCHANGED <<serverRaw, serverLang, kaikkiDisk, glossDisk, arg, result, clock,
                   done, fdServer, fdDisk, procs, capture>>

\* linked sentence pairs of the two source languages
LinkedSrp ==
    {<<>>, <<SentencePair(Ta, Tx)>>, <<SentencePair(Ta, Tx), SentencePair(TA, Tx)>>,
     <<SentencePair(Tb, Ty)>>, <<SentencePair(Tb, Ty), SentencePair(Tb, Tx)>>}
LinkedHrv ==
    {<<>>, <<SentencePair(Tb, Ty)>>, <<SentencePair(TA, Tx)>>,
     <<SentencePair(Ta, Ty), SentencePair(Tb, Ty)>>}

InitTatoeba ==
    /\ serverRaw = <<>>
    /\ serverLang = <<>>
    /\ rawFile = NoFile
    /\ langFiles = <<>>
    /\ filteredFiles = <<>>
    /\ metaFiles = <<>>
    /\ tmpFiles = <<>>
    /\ localizedFiles = <<>>
    /\ mapFiles = <<>>
    /\ translationCache = <<>>
    /\ \E srp \in LinkedSrp, hrv \in LinkedHrv :
          arg = [lang \in SourceLangs |-> IF lang = "srp" THEN srp ELSE hrv]
    /\ result = <<>>
    /\ clock = 0
    /\ ret = NoRet
    /\ done = <<>>
    /\ fdServer = <<>>
    /\ fdDisk = <<>>
    /\ procs = <<>>
    /\ tatoeba = [r \in Runs |-> NoInstance]
    /\ capture = <<>>

NextTatoeba ==
    \/ \E r \in Runs : LoadPairs(r)
    \/ \E r \in Runs : NewInstance(r)

SpecTatoeba == InitTatoeba /\ [][NextTatoeba]_vars

\* C17: two runs on identical downloads write the same pairs cache, with the
\* same order of examples under every key, whatever the iteration order of
\* the set of source languages and of the sets of pairs.
C17_OrderStable ==
    \A r1, r2 \in Runs :
        (tatoeba[r1].pairs_cache.exists /\ tatoeba[r2].pairs_cache.exists) =>
            tatoeba[r1].pairs_cache.pairs = tatoeba[r2].pairs_cache.pairs

(***************************************************************************)
(* Two assemblies at once on one cache root.  Each run is a process that   *)
(* calls KaikkiClient.ensure_filtered_language for its source language;    *)
(* the steps of the call are the points where it touches a shared file:    *)
(* the existence test of the raw dump, the opening of the raw dump for     *)
(* writing, the chunk loop, the freshness test, the filter pass into the   *)
(* temporary file, the fallback, the rename and the sidecar write.         *)
(***************************************************************************)
Procs == {"p1", "p2"}

\* the source languages of the two runs; both resolve to Serbo-Croatian
RunLanguage(p) == IF p = "p1" THEN Serbian ELSE Croatian

NoReturn == [returned |-> FALSE, lines |-> <<>>, truncated |-> FALSE, count |-> 0,
             meta_count |-> 0]
Returned(file, count, meta) ==
    [returned |-> TRUE, lines |-> file.lines, truncated |-> file.truncated,
     count |-> count, meta_count |-> meta.count]

NewProc == [pc |-> "start", raw |-> NoReturn, filtered |-> NoReturn, outcome |-> "none",
            count |-> 0, raw_mtime |-> 0]

ProcUnchanged ==
    UNCHANGED <<serverRaw, serverLang, localizedFiles, mapFiles, translationCache, arg,
                result, clock, ret, done, fdServer, fdDisk, tatoeba, capture>>

\* ensure_raw_dump: "if target.exists(): return target"
RawCheck(p) ==
    /\ procs[p].pc = "start"
    /\ procs' = [procs EXCEPT ![p] =
                    IF rawFile.exists
                    THEN [@ EXCEPT !.pc = "check", !.raw = Returned(rawFile, 0, NoMeta)]
                    ELSE [@ EXCEPT !.pc = "raw_open"]]
    /\ UNCHANGED <<kaikkiDisk>>
    /\ ProcUnchanged

\* ensure_raw_dump: target.open("wb") after the response arrived
RawOpen(p) ==
    /\ procs[p].pc = "raw_open"
    /\ rawFile' = MkFile(<<>>, clock, TRUE)
    /\ procs' = [procs EXCEPT ![p].pc = "raw_write"]
    /\ UNCHANGED <<langFiles, filteredFiles, metaFiles, tmpFiles>>
    /\ ProcUnchanged

\* ensure_raw_dump: the chunk loop, the close and the return
RawWrite(p) ==
    /\ procs[p].pc = "raw_write"
    /\ rawFile' = MkFile(serverRaw, clock, FALSE)
    /\ procs' = [procs EXCEPT ![p].pc = "check", ![p].raw = Returned(rawFile', 0, NoMeta)]
    /\ UNCHANGED <<langFiles, filteredFiles, metaFiles, tmpFiles>>
    /\ ProcUnchanged

\* ensure_filtered_language: raw_dump.stat() and the freshness test
CacheCheck(p) ==
    LET raw_mtime == IntMtime(rawFile.mtime) IN
    /\ procs[p].pc = "check"
    /\ procs' = [procs EXCEPT ![p] =
                    IF CacheIsFresh(filteredFiles[BaseSlug], metaFiles[BaseSlug], raw_mtime)
                    THEN [@ EXCEPT !.pc = "done", !.outcome = "cached",
                                   !.filtered = Returned(filteredFiles[BaseSlug],
                                                         metaFiles[BaseSlug].count,
                                                         metaFiles[BaseSlug])]
                    ELSE [@ EXCEPT !.pc = "filter", !.raw_mtime = raw_mtime]]
    /\ UNCHANGED <<kaikkiDisk>>
    /\ ProcUnchanged

\* ensure_filtered_language: the with-block that reads the raw dump and writes
\* the matching lines to <slug>.tmp
FilterToTemp(p) ==
    LET pass == RawPass(rawFile, CanonicalLanguage(RunLanguage(p))) IN
    /\ procs[p].pc = "filter"
    /\ IF pass.err # "none"
       THEN /\ tmpFiles' = [tmpFiles EXCEPT ![BaseSlug] = MkFile(pass.out, clock, FALSE)]
            /\ procs' = [procs EXCEPT ![p].pc = "done", ![p].outcome = pass.err]
       ELSE IF pass.out # <<>>
       THEN /\ tmpFiles' = [tmpFiles EXCEPT ![BaseSlug] = MkFile(pass.out, clock, FALSE)]
            /\ procs' = [procs EXCEPT ![p].pc = "rename", ![p].count = Len(pass.out)]
       ELSE /\ tmpFiles' = [tmpFiles EXCEPT ![BaseSlug] = NoFile]
            /\ procs' = [procs EXCEPT ![p].pc = "fallback"]
    /\ UNCHANGED <<rawFile, langFiles, filteredFiles, metaFiles>>
    /\ ProcUnchanged

\* ensure_filtered_language: the branch "if count == 0" up to the rename
Fallback(p) ==
    LET kslug == KaikkiSlug(CanonicalLanguage(RunLanguage(p)))
        ld == ensure_language_dataset(langFiles[kslug], serverLang[kslug],
                                      [kind |-> "ok", at |-> Len(serverLang[kslug])], clock)
        copy == NonBlank(ld.file.lines)
    IN /\ procs[p].pc = "fallback"
       /\ langFiles' = [langFiles EXCEPT ![kslug] = ld.file]
       /\ IF copy = <<>>
          THEN /\ tmpFiles' = [tmpFiles EXCEPT ![BaseSlug] = NoFile]
               /\ procs' = [procs EXCEPT ![p].pc = "done",
                                         ![p].outcome = "KaikkiDownloadError"]
          ELSE /\ tmpFiles' = [tmpFiles EXCEPT ![BaseSlug] = MkFile(copy, clock, FALSE)]
               /\ procs' = [procs EXCEPT ![p].pc = "rename", ![p].count = Len(copy)]
       /\ UNCHANGED <<rawFile, filteredFiles, metaFiles>>
       /\ ProcUnchanged

\* ensure_filtered_language: temp_path.rename(filtered_path)
RenameTemp(p) ==
    /\ procs[p].pc = "rename"
    /\ IF ~tmpFiles[BaseSlug].exists
       THEN /\ procs' = [procs EXCEPT ![p].pc = "done", ![p].outcome = "FileNotFoundError"]
            /\ UNCHANGED <<filteredFiles, tmpFiles>>
       ELSE /\ filteredFiles' = [filteredFiles EXCEPT ![BaseSlug] = tmpFiles[BaseSlug]]
            /\ tmpFiles' = [tmpFiles EXCEPT ![BaseSlug] = NoFile]
            /\ procs' = [procs EXCEPT ![p].pc = "meta"]
    /\ UNCHANGED <<rawFile, langFiles, metaFiles>>
    /\ ProcUnchanged

\* ensure_filtered_language: meta_path.write_text(...) and the return
WriteMeta(p) ==
    /\ procs[p].pc = "meta"
    /\ metaFiles' = [metaFiles EXCEPT ![BaseSlug] =
                        MkMeta(CanonicalLanguage(RunLanguage(p)), procs[p].count,
                               procs[p].raw_mtime)]
    /\ procs' = [procs EXCEPT ![p].pc = "done", ![p].outcome = "ok",
                              ![p].filtered = Returned(filteredFiles[BaseSlug],
                                                       procs[p].count,
                                                       metaFiles'[BaseSlug])]
    /\ UNCHANGED <<rawFile, langFiles, filteredFiles, tmpFiles>>
    /\ ProcUnchanged

InitConcurrent ==
    /\ serverRaw \in SeqsUpTo(RawLineSet, MaxLines)
    /\ serverLang \in {[s \in KaikkiSlugs |-> b] : b \in LangBodies}
    /\ rawFile = NoFile
    /\ langFiles = [s \in KaikkiSlugs |-> NoFile]
    /\ filteredFiles = [s \in Slugs |-> NoFile]
    /\ metaFiles = [s \in Slugs |-> NoMeta]
    /\ tmpFiles = [s \in Slugs |-> NoFile]
    /\ EmptyGlossDisk
    /\ clock = 0
    /\ ret = NoRet
    /\ done = <<>>
    /\ fdServer = <<>>
    /\ fdDisk = <<>>
    /\ tatoeba = <<>>
    /\ capture = <<>>
    /\ procs = [p \in Procs |-> NewProc]

NextConcurrent ==
    \E p \in Procs :
        \/ RawCheck(p)
        \/ RawOpen(p)
        \/ RawWrite(p)
        \/ CacheCheck(p)
        \/ FilterToTemp(p)
        \/ Fallback(p)
        \/ RenameTemp(p)
        \/ WriteMeta(p)

SpecConcurrent == InitConcurrent /\ [][NextConcurrent]_vars

\* what a run that has the cache root to itself gets
AloneOutcome ==
    KaikkiFilter(SerboCroatian, MkFile(serverRaw, 0, FALSE), NoFile, NoMeta, NoFile,
                 NoFile, serverLang[KaikkiSlug(SerboCroatian)],
                 [kind |-> "ok", at |-> Len(serverLang[KaikkiSlug(SerboCroatian)])], 0)

\* C18: in every interleaving of two runs that share a source language, each
\* ensure_raw_dump call returns the complete raw dump, and each
\* ensure_filtered_language call ends as it would alone and returns the
\* complete filtered file, whose line count is the count of its sidecar.
C18_ConcurrentRunsSafe ==
    \A p \in Procs :
        /\ procs[p].raw.returned =>
              procs[p].raw.lines = serverRaw /\ ~procs[p].raw.truncated
        /\ procs[p].pc = "done" =>
              /\ procs[p].outcome \in {AloneOutcome.outcome, "cached"}
              /\ procs[p].filtered.returned =>
                    /\ procs[p].filtered.lines = AloneOutcome.filtered.lines
                    /\ Len(procs[p].filtered.lines) = procs[p].filtered.count
                    /\ procs[p].filtered.count = procs[p].filtered.meta_count

(***************************************************************************)
(* The command line (main.py).  cli runs under click: a click.UsageError   *)
(* or click.ClickException raised by the callback is shown and turned into *)
(* an exit code; any other exception leaves the callback unhandled.  As a  *)
(* process the interpreter then prints the traceback, whose last line      *)
(* holds the message, and exits with 1; under click.testing.CliRunner the  *)
(* exception is kept in the result and nothing is added to the output.     *)
(***************************************************************************)
TypedFailures == {"KaikkiDownloadError", "KaikkiParseError", "KindleBuildError"}
Messages == {"network down", "invalid json"}
UsageMessage == "Input language is required"
KindlegenMessage == "kindlegen not found"

\* what Builder.build_dictionary does when the command reaches it
BuildOutcomes ==
    {[raised |-> "none", message |-> ""]}
        \cup {[raised |-> e, message |-> m] : e \in TypedFailures, m \in Messages}

Printed(kind, text) == [kind |-> kind, text |-> text]

\* the callback cli(): what it prints and how it ends
cli(in_lang, kindlegen_path, guessed, build) ==
    IF in_lang = ""
    THEN [output |-> <<>>, raised |-> "UsageError", message |-> UsageMessage]
    ELSE IF kindlegen_path = "" /\ guessed = ""
    THEN [output |-> <<>>, raised |-> "ClickException", message |-> KindlegenMessage]
    ELSE IF build.raised # "none"
    THEN [output |-> <<>>, raised |-> build.raised, message |-> build.message]
    ELSE [output |-> <<Printed("echo", "DONE")>>, raised |-> "none", message |-> ""]

\* click's BaseCommand.main in standalone mode around the callback, and what
\* the caller of the command sees
RunCommand(runner, r) ==
    IF r.raised = "none" THEN [exit_code |-> 0, output |-> r.output, exception |-> "none"]
    ELSE IF r.raised = "UsageError"
    THEN [exit_code |-> 2,
          output |-> r.output \o <<Printed("usage", "Usage"), Printed("error", r.message)>>,
          exception |-> "SystemExit"]
    ELSE IF r.raised = "ClickException"
    THEN [exit_code |-> 1, output |-> Append(r.output, Printed("error", r.message)),
          exception |-> "SystemExit"]
    ELSE IF runner = "process"
    THEN [exit_code |-> 1, output |-> Append(r.output, Printed("traceback", r.message)),
          exception |-> r.raised]
    ELSE [exit_code |-> 1, output |-> r.output, exception |-> r.raised]

InitCli ==
    /\ serverRaw = <<>>
    /\ serverLang = <<>>
    /\ rawFile = NoFile
    /\ langFiles = <<>>
    /\ filteredFiles = <<>>
    /\ metaFiles = <<>>
    /\ tmpFiles = <<>>
    /\ localizedFiles = <<>>
    /\ mapFiles = <<>>
    /\ translationCache = <<>>
    /\ \E in_lang \in {"", "sr", "Serbo-Croatian"}, kindlegen_path \in {"", "/opt/kindlegen"},
          guessed \in {"", "/usr/bin/kindlegen"}, build \in BuildOutcomes,
          runner \in {"process", "CliRunner"} :
          arg = [in_lang |-> in_lang, kindlegen_path |-> kindlegen_path,
                 guessed |-> guessed, build |-> build, runner |-> runner]
    /\ result = <<>>
    /\ clock = 0
    /\ ret = NoRet
    /\ done = <<>>
    /\ NoOtherState

\* one run of the command
RunCli ==
    /\ ret.op = "none"
    /\ result' = RunCommand(arg.runner,
                            cli(arg.in_lang, arg.kindlegen_path, arg.guessed, arg.build))
    /\ ret' = [op |-> "cli"]
    /\ UNCHANGED <<serverRaw, serverLang, kaikkiDisk, glossDisk, arg, clock, done, otherVars>>

SpecCli == InitCli /\ [][RunCli]_vars

ReachesBuild == arg.in_lang # "" /\ (arg.kindlegen_path # "" \/ arg.guessed # "")

\* C20: when build_dictionary raises a typed failure the command prints the
\* failure's message and exits with 1; a build that succeeds exits with 0; a
\* missing input language is a usage error.
C20_ExitCodes ==
    ret.op = "cli" =>
        /\ (ReachesBuild /\ arg.build.raised \in TypedFailures) =>
              /\ result.exit_code = 1
              /\ \E i \in 1..Len(result.output) : result.output[i].text = arg.build.message
        /\ (ReachesBuild /\ arg.build.raised = "none") => result.exit_code = 0
        /\ arg.in_lang = "" =>
              /\ result.exit_code = 2
              /\ \E i \in 1..Len(result.output) : result.output[i].text = UsageMessage

\* C19: once _download_dictionary has succeeded for a pair, a later call for
\* that pair returns the same StarDict directory and issues no network
\* request, also when the archive unpacked into a subdirectory.
C19_CacheReusable ==
    (ret.op = "_download_dictionary" /\ ret.earlier # "none") =>
        /\ ret.outcome = "ok"
        /\ ret.dir = ret.earlier
        /\ ~ret.requests

(***************************************************************************)
(* Kindle locale codes (kindle.py; Builder._kindle_lang_code is the same   *)
(* text over the same set).  A code is a sequence of characters; None is   *)
(* the value "None".                                                       *)
(***************************************************************************)
None == "None"

\* the state of everything no pure function touches
NoProgramState ==
    /\ serverRaw = <<>>
    /\ serverLang = <<>>
    /\ rawFile = NoFile
    /\ langFiles = <<>>
    /\ filteredFiles = <<>>
    /\ metaFiles = <<>>
    /\ tmpFiles = <<>>
    /\ localizedFiles = <<>>
    /\ mapFiles = <<>>
    /\ translationCache = <<>>
    /\ clock = 0
    /\ done = <<>>
    /\ NoOtherState

programVars == <<serverRaw, serverLang, kaikkiDisk, glossDisk, clock, done, otherVars>>

\* the codes the calls are made with
LangCodes ==
    {None, <<>>, <<"e", "n">>, <<"E", "N">>, <<"E", "n">>, <<"s", "r">>, <<"S", "R">>,
     <<"s", "R">>, <<"h", "r">>, <<"H", "R">>, <<"x", "x">>, <<"s", "h">>,
     <<"e", "n", "-", "u", "s">>, <<"E", "N", "-", "U", "S">>, <<"r", "u">>, <<"R", "u">>,
     <<" ", "h", "r">>}

\* KINDLE_SUPPORTED_LANGS: its members among the lowercased LangCodes
KINDLE_SUPPORTED_LANGS ==
    {<<"e", "n">>, <<"h", "r">>, <<"e", "n", "-", "u", "s">>, <<"r", "u">>}

\* if x: of a str | None
Truthy(x) == x # None /\ x # <<>>

Returns(value) == [raised |-> "none", value |-> value]
Raises(error) == [raised |-> error, value |-> None]

\* overrides.get(normalized, normalized)
CodeOverrides(normalized) ==
    CASE normalized = <<"s", "r">> -> <<"h", "r">>
      [] normalized = <<"e", "n">> -> <<"e", "n", "-", "u", "s">>
      [] OTHER -> normalized

\* kindle_lang_code returning the lowercased override without looking it up
kindle_lang_code_AnyOverride(code, override) ==
    IF Truthy(override) THEN Returns(Lower(override))
    ELSE IF ~Truthy(code) THEN Returns(<<"e", "n">>)
    ELSE IF Lower(code) \in KINDLE_SUPPORTED_LANGS THEN Returns(Lower(code))
    ELSE IF CodeOverrides(Lower(code)) \in KINDLE_SUPPORTED_LANGS
         THEN Returns(CodeOverrides(Lower(code)))
    ELSE Returns(<<"e", "n">>)

\* kindle_lang_code(code, override)
kindle_lang_code(code, override) ==
    IF Truthy(override)
    THEN IF Lower(override) \in KINDLE_SUPPORTED_LANGS
         THEN Returns(Lower(override))
         ELSE Raises("KindleBuildError")
    ELSE IF ~Truthy(code) THEN Returns(<<"e", "n">>)
    ELSE IF Lower(code) \in KINDLE_SUPPORTED_LANGS THEN Returns(Lower(code))
    ELSE IF CodeOverrides(Lower(code)) = <<"e", "n">>
         THEN Returns(<<"e", "n", "-", "u", "s">>)
    ELSE IF CodeOverrides(Lower(code)) \in KINDLE_SUPPORTED_LANGS
         THEN Returns(CodeOverrides(Lower(code)))
    ELSE Returns(<<"e", "n">>)

InitKindle ==
    /\ NoProgramState
    /\ arg \in [code : LangCodes, override : LangCodes]
    /\ result = <<>>
    /\ ret = NoRet

KindleLangCode ==
    /\ ret.op = "none"
    /\ result' = kindle_lang_code(arg.code, arg.override)
    /\ ret' = [op |-> "kindle_lang_code"]
    /\ UNCHANGED <<programVars, arg>>

SpecKindle == InitKindle /\ [][KindleLangCode]_vars

\* C21: kindle_lang_code raises KindleBuildError exactly when a non-empty
\* override, lowercased, is outside the Kindle locale set; otherwise it returns
\* a member of the set: the lowercased override when there is one, and with
\* no override "en" for an absent code, the lowercased code when that is in
\* the set, "hr" for "sr", and "en" for any other code.
C21_KindleLangCode ==
    ret.op = "kindle_lang_code" =>
        /\ result.raised \in {"none", "KindleBuildError"}
        /\ result.raised = "KindleBuildError" <=>
              (Truthy(arg.override) /\ Lower(arg.override) \notin KINDLE_SUPPORTED_LANGS)
        /\ result.raised = "none" =>
              /\ result.value \in KINDLE_SUPPORTED_LANGS
              /\ Truthy(arg.override) => result.value = Lower(arg.override)
              /\ ~Truthy(arg.override) =>
                    result.value =
                        IF ~Truthy(arg.code) THEN <<"e", "n">>
                        ELSE IF Lower(arg.code) \in KINDLE_SUPPORTED_LANGS
                             THEN Lower(arg.code)
                        ELSE IF Lower(arg.code) = <<"s", "r">> THEN <<"h", "r">>
                        ELSE <<"e", "n">>

\* an unsupported override was refused and "SR" with no override gave "hr"
C21_Witness ==
    /\ ret.op = "kindle_lang_code"
    /\ \/ result.raised = "KindleBuildError" /\ arg.code = <<"s", "r">>
       \/ /\ arg.code = <<"S", "R">> /\ ~Truthy(arg.override)
          /\ result = Returns(<<"h", "r">>)

(***************************************************************************)
(* Builder.build_dictionary (builder.py).  _export_one is taken by what it *)
(* gives back to build_dictionary: an entry count, or an exception.        *)
(***************************************************************************)
OldEnglish == <<"Old", " ", "English">>
BuildLangs == {Serbian, Croatian, OldEnglish}
OutDir == <<"build">>

\* the entry count _export_one returns for a language
EntryCount(language) ==
    CASE language = Serbian -> 3 [] language = Croatian -> 1 [] OTHER -> 0

\* extra.replace(' ', '_')
ReplaceBlanks(name) == [i \in 1..Len(name) |-> IF name[i] = " " THEN "_" ELSE name[i]]

\* outdir / f"extra_{extra.replace(' ', '_')}"
ExtraOut(outdir, extra) == Append(outdir, <<"extra_">> \o ReplaceBlanks(extra))

\* one call of _export_one as build_dictionary sees it
ExportCall(language, outdir, fails) ==
    [language |-> language, outdir |-> outdir,
     raised |-> IF language \in fails THEN "KindleBuildError" ELSE "none",
     count |-> IF language \in fails THEN 0 ELSE EntryCount(language)]

\* counts[language] = self._export_one(...): st is the state of the call
AfterExport(st, call) ==
    [calls |-> Append(st.calls, call),
     counts |-> IF call.raised = "none" THEN Put(st.counts, call.language, call.count)
                ELSE st.counts,
     raised |-> call.raised]

RECURSIVE ExportExtras(_, _, _, _)
\* for extra in in_langs[1:]
ExportExtras(extras, outdir, fails, st) ==
    IF extras = <<>> \/ st.raised # "none" THEN st
    ELSE ExportExtras(Tail(extras), outdir, fails,
                      AfterExport(st, ExportCall(Head(extras),
                                                 ExtraOut(outdir, Head(extras)), fails)))

\* the body of build_dictionary for a primary language and the extra ones
BuildFrom(primary, extras, outdir, fails) ==
    ExportExtras(extras, outdir, fails,
                 AfterExport([calls |-> <<>>, counts |-> <<>>, raised |-> "none"],
                             ExportCall(primary, outdir, fails)))

\* build_dictionary taking the last language of the list as the primary one
build_dictionary_LastFirst(in_langs, outdir, fails) ==
    BuildFrom(in_langs[Len(in_langs)], SubSeq(in_langs, 1, Len(in_langs) - 1),
              outdir, fails)

\* Builder.build_dictionary(in_langs, ..., outdir, ...)
build_dictionary(in_langs, outdir, fails) ==
    BuildFrom(Head(in_langs), Tail(in_langs), outdir, fails)

InitBuild ==
    /\ NoProgramState
    /\ arg \in [in_langs : SeqsUpTo(BuildLangs, 3) \ {<<>>}, fails : SUBSET BuildLangs]
    /\ result = <<>>
    /\ ret = NoRet

BuildDictionary ==
    /\ ret.op = "none"
    /\ result' = build_dictionary(arg.in_langs, OutDir, arg.fails)
    /\ ret' = [op |-> "build_dictionary"]
    /\ UNCHANGED <<programVars, arg>>

SpecBuild == InitBuild /\ [][BuildDictionary]_vars

\* C22: build_dictionary exports the primary language first into the output
\* directory, then each extra language in list order into its own
\* extra_<language> sub-directory; the counts it returns give every input
\* language the count of its own export; after an export that raised no
\* later language is exported.
C22_ExportOrder ==
    ret.op = "build_dictionary" =>
        LET calls == result.calls
            n == Len(calls)
        IN /\ n \in 1..Len(arg.in_langs)
           /\ \A i \in 1..n :
                 /\ calls[i].language = arg.in_langs[i]
                 /\ calls[i].outdir =
                       IF i = 1 THEN OutDir
                       ELSE Append(OutDir, <<"extra_">> \o ReplaceBlanks(arg.in_langs[i]))
                 /\ i < n => calls[i].raised = "none"
           /\ \A i, j \in 2..n :
                 calls[i].language # calls[j].language => calls[i].outdir # calls[j].outdir
           /\ result.raised = calls[n].raised
           /\ result.raised = "none" =>
                 /\ n = Len(arg.in_langs)
                 /\ DOMAIN result.counts = Range(arg.in_langs)
                 /\ \A i \in 1..n : result.counts[calls[i].language] = calls[i].count
           /\ result.raised # "none" =>
                 \A i \in 1..Len(arg.in_langs) : arg.in_langs[i] \in arg.fails => n <= i

\* three languages were exported, or the second export raised and the third
\* language was left alone
C22_Witness ==
    /\ ret.op = "build_dictionary"
    /\ Len(arg.in_langs) = 3
    /\ arg.in_langs[1] # arg.in_langs[2]
    /\ \/ Len(result.calls) = 3 /\ result.raised = "none"
       \/ Len(result.calls) = 2 /\ result.raised = "KindleBuildError"

(***************************************************************************)
(* Reading a StarDict dictionary (source_freedict.py): the index is a list *)
(* of (word, offset, size) and the .dict file a string of characters.  The *)
(* texts of the model hold no "<", so the removal of tags leaves them as   *)
(* they are.                                                               *)
(***************************************************************************)
IndexRecord(word, offset, size) == [word |-> word, offset |-> offset, size |-> size]

\* the .dict file of the model
DictData == <<"a", ";", "b", " ">>
IndexWords == {<<"k">>, <<"h">>}
IndexRecords ==
    {IndexRecord(w, o, n) : w \in IndexWords, o \in 0..(Len(DictData) - 1),
                            n \in 0..(Len(DictData) - 1)}

\* dict_data[offset : offset + size]
Slice(data, offset, size) == SubSeq(data, offset + 1, offset + size)

RECURSIVE SplitOn(_, _, _)
\* re.split(r"[;|\n]", text); part is the piece being read
SplitOn(text, delimiters, part) ==
    IF text = <<>> THEN <<part>>
    ELSE IF Head(text) \in delimiters
    THEN <<part>> \o SplitOn(Tail(text), delimiters, <<>>)
    ELSE SplitOn(Tail(text), delimiters, Append(part, Head(text)))

NotEmpty(text) == text # <<>>

\* FreeDictSource._extract_glosses
extract_glosses(definition) ==
    IF SelectSeq(SplitOn(definition, {";", "|"}, <<>>), LAMBDA p : Strip(p) # <<>>) # <<>>
    THEN SelectSeq([i \in 1..Len(SplitOn(definition, {";", "|"}, <<>>)) |->
                       Strip(SplitOn(definition, {";", "|"}, <<>>)[i])], NotEmpty)
    ELSE IF Strip(definition) # <<>> THEN <<Strip(definition)>>
    ELSE <<>>

InRange(data, rec) == ~(rec.offset + rec.size > Len(data))

\* FreeDictSource._read_definitions: the records of the index whose bytes are
\* in the file, each with its stripped definition split into glosses
read_definitions(dict_data, index) ==
    [i \in 1..Len(SelectSeq(index, LAMBDA rec : InRange(dict_data, rec))) |->
        StarDictRecord(SelectSeq(index, LAMBDA rec : InRange(dict_data, rec))[i].word,
                       extract_glosses(Strip(Slice(dict_data,
                           SelectSeq(index, LAMBDA rec : InRange(dict_data, rec))[i].offset,
                           SelectSeq(index, LAMBDA rec : InRange(dict_data, rec))[i].size))))]

InitIndex ==
    /\ NoProgramState
    /\ arg \in [index : SeqsUpTo(IndexRecords, MaxIndex)]
    /\ result = <<>>
    /\ ret = NoRet

\* FreeDictSource._parse_stardict_files(dict_dir) on the files of the model
ParseStardictFiles ==
    /\ ret.op = "none"
    /\ result' = parse_stardict_files(read_definitions(DictData, arg.index))
    /\ ret' = [op |-> "_parse_stardict_files"]
    /\ UNCHANGED <<programVars, arg>>

SpecIndex == InitIndex /\ [][ParseStardictFiles]_vars

\* the entry an index record stands for: its word with the glosses of the
\* definition at its own offset and size
OwnEntry(rec) ==
    FdEntry(rec.word,
            <<FdSense(extract_glosses(Strip(Slice(DictData, rec.offset, rec.size))), <<>>)>>)

HasOwnContent(rec) == InRange(DictData, rec) /\ fd_entry_has_content(OwnEntry(rec))

\* C23: _parse_stardict_files emits one entry for every index record that has
\* content, in index order, each with the definition at that record's own
\* offset and size, also when a headword occurs in several records.
C23_OneEntryPerRecord ==
    ret.op = "_parse_stardict_files" =>
        result = [i \in 1..Len(SelectSeq(arg.index, HasOwnContent)) |->
                     OwnEntry(SelectSeq(arg.index, HasOwnContent)[i])]

(***************************************************************************)
(* Builder._export_one (builder.py) from the database build on.  The call  *)
(* is given by what the tools it drives do (inp); its run is the list of   *)
(* the steps it takes (trace), the files under outdir it leaves (fs) and   *)
(* how it ends.  fs.tree is <outdir>/<in>-<out>/, fs.opf and fs.mobi are   *)
(* OEBPS/content.opf and OEBPS/content.mobi in it, fs.final is             *)
(* <outdir>/<in>-<out>.mobi.                                               *)
(***************************************************************************)
ExportInputs ==
    [db : {"ok", "JSONDecodeError", "OSError"},
     export : {"ok", "FileNotFoundError", "RuntimeError"},
     opf : BOOLEAN, stale_mobi : BOOLEAN, opf_valid : BOOLEAN,
     kindlegen_path : {"", "kindlegen"}, returncode : {0, 1}, produces : BOOLEAN,
     entry_count : {0, 2}]

NoExportFiles == [tree |-> FALSE, opf |-> FALSE, mobi |-> FALSE, final |-> FALSE]

Run(trace, fs, raised, value) ==
    [trace |-> trace, fs |-> fs, raised |-> raised, value |-> value]

\* the run st followed by the steps of next
Then(st, next) ==
    Run(st.trace \o next.trace, next.fs, next.raised, next.value)

\* db_capture.start() ... finally: db_capture.stop(), leaving the stop to the
\* branch of a build that succeeded
DatabaseStage_StopOnSuccess(inp) ==
    IF inp.db = "ok"
    THEN Run(<<"db.start", "create_database", "db.finish", "db.stop">>,
             NoExportFiles, "none", None)
    ELSE Run(<<"db.start", "create_database", "db.output">>, NoExportFiles,
             IF inp.db = "JSONDecodeError" THEN "KaikkiParseError" ELSE inp.db, None)

\* db_capture.start(); try: create_database ... finally: db_capture.stop()
DatabaseStage(inp) ==
    IF inp.db = "ok"
    THEN Run(<<"db.start", "create_database", "db.finish", "db.stop">>,
             NoExportFiles, "none", None)
    ELSE Run(<<"db.start", "create_database", "db.output", "db.stop">>, NoExportFiles,
             IF inp.db = "JSONDecodeError" THEN "KaikkiParseError" ELSE inp.db, None)

\* shutil.rmtree(mobi_base); kindle_capture.start(); try: export_to_kindle ...
\* finally: kindle_capture.stop()
KindleStage(inp) ==
    CASE inp.export = "ok" ->
            Run(<<"rmtree", "kindle.start", "export_to_kindle", "kindle.finish",
                  "kindle.stop">>,
                [NoExportFiles EXCEPT !.final = TRUE], "none", None)
      [] inp.export = "FileNotFoundError" ->
            Run(<<"rmtree", "kindle.start", "export_to_kindle", "kindle.stop">>,
                [tree |-> inp.opf \/ inp.stale_mobi, opf |-> inp.opf,
                 mobi |-> inp.stale_mobi, final |-> FALSE],
                "none", None)
      [] OTHER ->
            Run(<<"rmtree", "kindle.start", "export_to_kindle", "kindle.output",
                  "kindle.stop">>,
                [tree |-> inp.opf \/ inp.stale_mobi, opf |-> inp.opf,
                 mobi |-> inp.stale_mobi, final |-> FALSE],
                inp.export, None)

\* the fallback of _export_one running kindlegen before the metadata is fixed
\* and taking its result unseen
KindlegenFallback_KindlegenFirst(inp, fs) ==
    IF ~fs.opf THEN Run(<<>>, fs, "KindleBuildError", None)
    ELSE IF inp.kindlegen_path = "" THEN Run(<<>>, fs, "KindleBuildError", None)
    ELSE IF inp.returncode # 0
    THEN Run(<<"kindlegen">>, [fs EXCEPT !.mobi = fs.mobi \/ inp.produces],
             "KindleBuildError", None)
    ELSE IF ~inp.opf_valid
    THEN Run(<<"kindlegen">>, [fs EXCEPT !.mobi = fs.mobi \/ inp.produces],
             "ParseError", None)
    ELSE Run(<<"kindlegen", "_ensure_opf_languages", "move", "rmtree", "summary">>,
             [tree |-> FALSE, opf |-> FALSE, mobi |-> FALSE,
              final |-> fs.mobi \/ inp.produces],
             "none", inp.entry_count)

\* the part of _export_one after export_to_kindle raised FileNotFoundError;
\* fs is what the export left behind
KindlegenFallback(inp, fs) ==
    IF ~fs.opf THEN Run(<<>>, fs, "KindleBuildError", None)
    ELSE IF ~inp.opf_valid THEN Run(<<"_ensure_opf_languages">>, fs, "ParseError", None)
    ELSE IF inp.kindlegen_path = ""
    THEN Run(<<"_ensure_opf_languages">>, fs, "KindleBuildError", None)
    ELSE IF inp.returncode # 0
    THEN Run(<<"_ensure_opf_languages", "kindlegen">>,
             [fs EXCEPT !.mobi = fs.mobi \/ inp.produces], "KindleBuildError", None)
    ELSE IF ~(fs.mobi \/ inp.produces)
    THEN Run(<<"_ensure_opf_languages", "kindlegen">>, fs, "KindleBuildError", None)
    ELSE Run(<<"_ensure_opf_languages", "kindlegen", "move", "rmtree", "summary">>,
             [tree |-> FALSE, opf |-> FALSE, mobi |-> FALSE, final |-> TRUE],
             "none", inp.entry_count)

\* Builder._export_one
export_one(inp) ==
    IF DatabaseStage(inp).raised # "none" THEN DatabaseStage(inp)
    ELSE IF inp.export = "ok"
    THEN Then(Then(DatabaseStage(inp), KindleStage(inp)),
              Run(<<"summary">>, KindleStage(inp).fs, "none", inp.entry_count))
    ELSE IF inp.export = "FileNotFoundError"
    THEN Then(Then(DatabaseStage(inp), KindleStage(inp)),
              KindlegenFallback(inp, KindleStage(inp).fs))
    ELSE Then(DatabaseStage(inp), KindleStage(inp))

InitExport ==
    /\ NoProgramState
    /\ arg \in ExportInputs
    /\ result = <<>>
    /\ ret = NoRet

ExportOne ==
    /\ ret.op = "none"
    /\ result' = export_one(arg)
    /\ ret' = [op |-> "_export_one"]
    /\ UNCHANGED <<programVars, arg>>

SpecExport == InitExport /\ [][ExportOne]_vars

\* the places of a step in a trace
Places(trace, step) == {i \in 1..Len(trace) : trace[i] = step}

FellBack == ret.op = "_export_one" /\ arg.db = "ok" /\ arg.export = "FileNotFoundError"

\* C24: after export_to_kindle failed with FileNotFoundError, a missing
\* content.opf ends the call with KindleBuildError before anything else is
\* done; the metadata is patched before kindlegen is invoked; without
\* content.mobi afterwards the call ends with KindleBuildError; and when the
\* call returns, <outdir>/<in>-<out>.mobi exists, the temporary tree is gone
\* and the value is the entry count.
C24_FallbackOrder ==
    FellBack =>
        /\ ~arg.opf =>
              /\ result.raised = "KindleBuildError"
              /\ Places(result.trace, "_ensure_opf_languages") = {}
              /\ Places(result.trace, "kindlegen") = {}
        /\ \A k \in Places(result.trace, "kindlegen") :
              \E p \in Places(result.trace, "_ensure_opf_languages") : p < k
        /\ (Places(result.trace, "kindlegen") # {} /\ ~result.fs.mobi /\ ~result.fs.final) =>
              result.raised = "KindleBuildError"
        /\ result.raised = "none" =>
              /\ result.fs.final
              /\ ~result.fs.tree
              /\ result.value = arg.entry_count
              /\ Places(result.trace, "kindlegen") # {}

\* the fallback ran to its end, kindlegen having written content.mobi
C24_Witness ==
    /\ FellBack
    /\ arg.produces /\ ~arg.stale_mobi
    /\ result.raised = "none"
    /\ result.fs.final

\* C25: every progress capture _export_one starts is stopped exactly once
\* before the call ends, however it ends, the stop coming after the start;
\* the Kindle capture is not started when the database build failed.
C25_CapturesStopped ==
    ret.op = "_export_one" =>
        /\ \A c \in {"db", "kindle"} :
              LET starts == Places(result.trace, c \o ".start")
                  stops == Places(result.trace, c \o ".stop")
              IN /\ Cardinality(starts) <= 1
                 /\ Cardinality(stops) = Cardinality(starts)
                 /\ \A s \in starts : \A t \in stops : s < t
        /\ Places(result.trace, "db.start") # {}
        /\ arg.db # "ok" => Places(result.trace, "kindle.start") = {}
        /\ arg.db = "ok" => Places(result.trace, "kindle.start") # {}

\* the database build failed on a JSON line and its capture was stopped
C25_Witness ==
    /\ ret.op = "_export_one"
    /\ arg.db = "JSONDecodeError"
    /\ result.raised = "KaikkiParseError"
    /\ Places(result.trace, "db.stop") # {}

(***************************************************************************)
(* The progress captures (progress_bar.py).  Text is a sequence of tokens: *)
(* a digit, "-", the end of a count line (" words", " base forms",         *)
(* " inflections to add manually") or the newline "nl".  A capture is a    *)
(* record of its fields; task is the Rich task, active while progress      *)
(* output is on.  A number that may be None is <<>> or <<n>>.              *)
(***************************************************************************)
MaxWrites == 2

Digits == {"1", "2"}
LineEnds == {" words", " base forms", " inflections to add manually"}

DigitValue(d) == IF d = "1" THEN 1 ELSE 2

RECURSIVE DigitsValue(_, _)
\* int() of a string of digits; value is the number read so far
DigitsValue(digits, value) ==
    IF digits = <<>> THEN value
    ELSE DigitsValue(Tail(digits), 10 * value + DigitValue(Head(digits)))

IsDigits(text) == text # <<>> /\ \A i \in 1..Len(text) : text[i] \in Digits

\* line.split(" ", 1)[0]: the tokens before the first one that starts with a blank
FirstPiece(line) ==
    SubSeq(line, 1, Cardinality({i \in 1..Len(line) : \A j \in 1..i : line[j] \notin LineEnds}))

\* int(text): <<value>>, or <<>> where int raises ValueError
ParseInt(text) ==
    IF IsDigits(text) THEN <<DigitsValue(text, 0)>>
    ELSE IF text # <<>> /\ Head(text) = "-" /\ IsDigits(Tail(text))
    THEN <<0 - DigitsValue(Tail(text), 0)>>
    ELSE <<>>

EndsWith(line, token) == line # <<>> /\ line[Len(line)] = token

\* _BaseProgressCapture.__init__ and start()
NewCapture(kind, enabled, total_hint) ==
    [kind |-> kind, buffer |-> <<>>, current |-> 0, total_hint |-> total_hint,
     base_forms |-> <<>>,
     task |-> [active |-> enabled, completed |-> 0, total |-> total_hint]]

\* _BaseProgressCapture.set_total
set_total(c, total) ==
    IF total < 0 THEN c
    ELSE [c EXCEPT !.total_hint = <<total>>,
                   !.task = IF c.task.active THEN [c.task EXCEPT !.total = <<total>>]
                            ELSE c.task]

\* _BaseProgressCapture.advance_to
advance_to(c, value) ==
    IF value <= c.current THEN c
    ELSE [c EXCEPT !.current = value,
                   !.task = IF c.task.active THEN [c.task EXCEPT !.completed = value]
                            ELSE c.task]

\* _DatabaseProgressCapture.handle_line
DatabaseHandleLine(c, line) ==
    IF line = <<>> THEN c
    ELSE IF EndsWith(line, " inflections to add manually")
    THEN IF ParseInt(FirstPiece(line)) = <<>> THEN c
         ELSE set_total(c, ParseInt(FirstPiece(line))[1])
    ELSE IF IsDigits(line) THEN advance_to(c, DigitsValue(line, 0))
    ELSE c

\* the branch of _KindleProgressCapture.handle_line for "<n> words"
KindleWords(c, words) ==
    IF c.total_hint = <<>> /\ c.base_forms # <<>>
    THEN advance_to(set_total(c, c.base_forms[1]), words)
    ELSE IF c.total_hint = <<>> THEN advance_to(set_total(c, words), words)
    ELSE advance_to(c, words)

\* _KindleProgressCapture.handle_line
KindleHandleLine(c, line) ==
    IF line = <<>> THEN c
    ELSE IF EndsWith(line, " words")
    THEN IF ParseInt(FirstPiece(line)) = <<>> THEN c
         ELSE KindleWords(c, ParseInt(FirstPiece(line))[1])
    ELSE IF EndsWith(line, " base forms")
    THEN IF ParseInt(FirstPiece(line)) = <<>> THEN c
         ELSE advance_to(set_total([c EXCEPT !.base_forms = ParseInt(FirstPiece(line))],
                                   ParseInt(FirstPiece(line))[1]),
                         ParseInt(FirstPiece(line))[1])
    ELSE c

handle_line(c, line) ==
    IF c.kind = "db" THEN DatabaseHandleLine(c, line) ELSE KindleHandleLine(c, line)

\* where the first newline of a text is, 0 when there is none
FirstNewline(text) ==
    IF \E i \in 1..Len(text) : text[i] = "nl"
    THEN CHOOSE i \in 1..Len(text) : text[i] = "nl" /\ \A j \in 1..(i - 1) : text[j] # "nl"
    ELSE 0

RECURSIVE DispatchLines(_)
\* while "\n" in self._buffer: line, self._buffer = self._buffer.split("\n", 1)
DispatchLines(c) ==
    IF FirstNewline(c.buffer) = 0 THEN c
    ELSE DispatchLines(
            handle_line([c EXCEPT !.buffer = SubSeq(c.buffer, FirstNewline(c.buffer) + 1,
                                                    Len(c.buffer))],
                        SubSeq(c.buffer, 1, FirstNewline(c.buffer) - 1)))

\* _BaseProgressCapture.write
write(c, text) == DispatchLines([c EXCEPT !.buffer = c.buffer \o text])

\* _BaseProgressCapture.stop: the rest of the buffer is handled as a line
stop(c) == [handle_line(c, c.buffer) EXCEPT !.buffer = <<>>]

\* _BaseProgressCapture.finish
finish(c) ==
    IF ~c.task.active THEN c
    ELSE [c EXCEPT !.task.completed =
                       IF c.total_hint # <<>> THEN c.total_hint[1] ELSE c.current]

\* the tokens a tool writes to a capture of this kind
Tokens(kind) ==
    IF kind = "db" THEN Digits \cup {"-", " inflections to add manually", "nl"}
    ELSE Digits \cup {"-", " words", " base forms", "nl"}

Chunks(kind) == SeqsUpTo(Tokens(kind), 2) \ {<<>>}

InitCapture ==
    /\ serverRaw = <<>>
    /\ serverLang = <<>>
    /\ rawFile = NoFile
    /\ langFiles = <<>>
    /\ filteredFiles = <<>>
    /\ metaFiles = <<>>
    /\ tmpFiles = <<>>
    /\ EmptyGlossDisk
    /\ clock = 0
    /\ ret = NoRet
    /\ done = <<>>
    /\ fdServer = <<>>
    /\ fdDisk = <<>>
    /\ procs = <<>>
    /\ tatoeba = <<>>
    /\ \E kind \in {"db", "kindle"}, enabled \in BOOLEAN :
          capture = NewCapture(kind, enabled, IF kind = "db" THEN <<>> ELSE <<1>>)

captureRest == <<serverRaw, serverLang, kaikkiDisk, glossDisk, arg, result, done,
                 fdServer, fdDisk, procs, tatoeba>>

\* the tool writes a chunk of its output to the capture
Write(chunk) ==
    /\ ret.op \in {"none", "write"}
    /\ clock < MaxWrites
    /\ clock' = clock + 1
    /\ capture' = write(capture, chunk)
    /\ ret' = [op |-> "write"]
    /\ UNCHANGED captureRest

\* capture.finish() after the tool returned
Finish ==
    /\ ret.op \in {"none", "write"}
    /\ capture' = finish(capture)
    /\ ret' = [op |-> "finish"]
    /\ UNCHANGED <<captureRest, clock>>

\* capture.stop() in the finally clause
Stop ==
    /\ ret.op \in {"none", "write", "finish"}
    /\ capture' = stop(capture)
    /\ ret' = [op |-> "stop"]
    /\ UNCHANGED <<captureRest, clock>>

NextCapture ==
    \/ \E chunk \in Chunks(capture.kind) : Write(chunk)
    \/ Finish
    \/ Stop

SpecCapture == InitCapture /\ [][NextCapture]_vars

\* the completed counter of a capture as its Rich task shows it
Completed(c) == IF c.task.active THEN c.task.completed ELSE c.current

\* C26: whatever text is written to a capture, in whatever chunks, and when
\* the rest of the text is handled at the stop, the completed counter does
\* not go down and no negative total is installed.
C26_ProgressForward ==
    [][ret'.op \in {"write", "stop"} =>
          /\ capture'.current >= capture.current
          /\ Completed(capture') >= Completed(capture)
          /\ capture'.total_hint # <<>> => capture'.total_hint[1] >= 0
          /\ capture'.task.total # <<>> => capture'.task.total[1] >= 0]_vars

(***************************************************************************)
(* entry_has_content of DictionarySource (source_base.py) and of           *)
(* FreeDictSource (source_freedict.py).  A JSON value is a record with its *)
(* type: a str with its text, a list with its items, a dict with its keys, *)
(* or none for a missing key.                                              *)
(***************************************************************************)
JNone == [type |-> "none"]
JStr(text) == [type |-> "str", text |-> text]
JInt == [type |-> "int"]
JList(items) == [type |-> "list", items |-> items]
JSense(glosses, raw_glosses) ==
    [type |-> "dict", glosses |-> glosses, raw_glosses |-> raw_glosses]
JEntry(senses) == [type |-> "dict", senses |-> senses]

GlossValues ==
    {JNone, JStr(<<" ">>), JStr(<<"a">>), JList(<<>>), JList(<<JStr(<<" ">>)>>),
     JList(<<JStr(<<"a">>)>>), JList(<<JInt, JStr(<<"b", " ">>)>>)}

SenseValues == {JSense(g, r) : g \in GlossValues, r \in GlossValues} \cup {JStr(<<"a">>)}

EntryValues ==
    {JEntry(JList(senses)) : senses \in SeqsUpTo(SenseValues, 2)}
        \cup {JEntry(JNone), JEntry(JStr(<<"a">>)), JStr(<<"a">>)}

\* _iter_values(values) of DictionarySource.entry_has_content
IterValues(values) ==
    IF values.type = "str" THEN <<values.text>>
    ELSE IF values.type = "list"
    THEN [i \in 1..Len(SelectSeq(values.items, LAMBDA v : v.type = "str")) |->
             SelectSeq(values.items, LAMBDA v : v.type = "str")[i].text]
    ELSE <<>>

HasText(texts) == \E i \in 1..Len(texts) : Strip(texts[i]) # <<>>

\* DictionarySource.entry_has_content
base_entry_has_content(entry) ==
    IF entry.type # "dict" THEN FALSE
    ELSE IF entry.senses.type # "list" \/ entry.senses.items = <<>> THEN FALSE
    ELSE \E i \in 1..Len(entry.senses.items) :
            /\ entry.senses.items[i].type = "dict"
            /\ \/ HasText(IterValues(entry.senses.items[i].glosses))
               \/ HasText(IterValues(entry.senses.items[i].raw_glosses))

\* FreeDictSource.entry_has_content
freedict_entry_has_content(entry) ==
    IF entry.type # "dict" THEN FALSE
    ELSE IF entry.senses.type # "list" \/ entry.senses.items = <<>> THEN FALSE
    ELSE \E i \in 1..Len(entry.senses.items) :
            /\ entry.senses.items[i].type = "dict"
            /\ \/ /\ entry.senses.items[i].glosses.type = "str"
                  /\ Strip(entry.senses.items[i].glosses.text) # <<>>
               \/ /\ entry.senses.items[i].glosses.type = "list"
                  /\ \E j \in 1..Len(entry.senses.items[i].glosses.items) :
                        /\ entry.senses.items[i].glosses.items[j].type = "str"
                        /\ Strip(entry.senses.items[i].glosses.items[j].text) # <<>>

InitContent ==
    /\ NoProgramState
    /\ arg \in EntryValues
    /\ result = <<>>
    /\ ret = NoRet

EntryHasContent ==
    /\ ret.op = "none"
    /\ result' = [base |-> base_entry_has_content(arg),
                  freedict |-> freedict_entry_has_content(arg)]
    /\ ret' = [op |-> "entry_has_content"]
    /\ UNCHANGED <<programVars, arg>>

SpecContent == InitContent /\ [][EntryHasContent]_vars

\* a value holds a string that is not all whitespace, itself or as an item
NonBlankString(value) ==
    \/ value.type = "str" /\ Strip(value.text) # <<>>
    \/ /\ value.type = "list"
       /\ \E j \in 1..Len(value.items) :
             value.items[j].type = "str" /\ Strip(value.items[j].text) # <<>>

ContentBearing(entry) ==
    /\ entry.type = "dict"
    /\ entry.senses.type = "list"
    /\ \E i \in 1..Len(entry.senses.items) :
          /\ entry.senses.items[i].type = "dict"
          /\ \/ NonBlankString(entry.senses.items[i].glosses)
             \/ NonBlankString(entry.senses.items[i].raw_glosses)

\* C27: both entry_has_content methods say that an entry has content exactly
\* when one of its senses has a non-whitespace string in glosses or in
\* raw_glosses, so the two agree on every entry.
C27_SameContentTest ==
    ret.op = "entry_has_content" =>
        /\ result.base = ContentBearing(arg)
        /\ result.freedict = ContentBearing(arg)

(***************************************************************************)
(* Interrupted calls (kaikki.py:132-212, 101-130, 309-330).  One run at a  *)
(* time calls KaikkiClient.ensure_filtered_language for Serbian; the run   *)
(* can be stopped (signal, power loss) at each point where it touches a    *)
(* file, which leaves the file as far as it was written, and the next run  *)
(* then starts on the disk the stopped one left.  The steps of a run are   *)
(* the steps RawCheck .. WriteMeta above, taken by the one process Runner. *)
(***************************************************************************)
Runner == "p1"

\* what a stopped write loop of a download had appended to its target
Streamed(body, k, t) == MkFile(SubSeq(body, 1, k), t, k < Len(body))

\* stopped inside the chunk loop of ensure_raw_dump (325-328)
InterruptRawDownload ==
    /\ procs[Runner].pc = "raw_write"
    /\ \E k \in 0..Len(serverRaw) : rawFile' = Streamed(serverRaw, k, clock)
    /\ procs' = [procs EXCEPT ![Runner] = NewProc]
    /\ UNCHANGED <<langFiles, filteredFiles, metaFiles, tmpFiles>>
    /\ ProcUnchanged

\* stopped inside the with-block of the filter pass (155-173): the temporary
\* file holds the matching lines written so far
InterruptFilter ==
    LET pass == RawPass(rawFile, CanonicalLanguage(RunLanguage(Runner))) IN
    /\ procs[Runner].pc = "filter"
    /\ \E k \in 0..Len(pass.out) :
          tmpFiles' = [tmpFiles EXCEPT ![BaseSlug] = MkFile(SubSeq(pass.out, 1, k), clock, FALSE)]
    /\ procs' = [procs EXCEPT ![Runner] = NewProc]
    /\ UNCHANGED <<rawFile, langFiles, filteredFiles, metaFiles>>
    /\ ProcUnchanged

\* stopped inside ensure_language_dataset, called at 181 after the unlink of
\* the temporary file (180): the chunk loop (121-125) writes to the final path
InterruptLanguageDownload ==
    LET kslug == KaikkiSlug(CanonicalLanguage(RunLanguage(Runner))) IN
    /\ procs[Runner].pc = "fallback"
    /\ ~langFiles[kslug].exists
    /\ \E k \in 0..Len(serverLang[kslug]) :
          langFiles' = [langFiles EXCEPT ![kslug] = Streamed(serverLang[kslug], k, clock)]
    /\ procs' = [procs EXCEPT ![Runner] = NewProc]
    /\ UNCHANGED <<rawFile, filteredFiles, metaFiles, tmpFiles>>
    /\ ProcUnchanged

\* stopped inside meta_path.write_text (207-210): the sidecar holds a proper
\* prefix of the JSON object, which json.loads rejects
InterruptMetaWrite ==
    /\ procs[Runner].pc = "meta"
    /\ metaFiles' = [metaFiles EXCEPT ![BaseSlug] = UnreadableMeta]
    /\ procs' = [procs EXCEPT ![Runner] = NewProc]
    /\ UNCHANGED <<rawFile, langFiles, filteredFiles, tmpFiles>>
    /\ ProcUnchanged

\* stopped between two steps: before the download, before the freshness
\* test, before the rename (206) or between the rename and the sidecar write
InterruptBetween ==
    /\ procs[Runner].pc \in {"raw_open", "check", "filter", "fallback", "rename", "meta"}
    /\ procs' = [procs EXCEPT ![Runner] = NewProc]
    /\ UNCHANGED <<kaikkiDisk>>
    /\ ProcUnchanged

\* the run has ended (returned or raised); the next run starts, now or later
NextRun ==
    /\ procs[Runner].pc = "done"
    /\ procs' = [procs EXCEPT ![Runner] = NewProc]
    /\ \E t \in {clock, clock + 1} : t <= MaxClock /\ clock' = t
    /\ UNCHANGED <<serverRaw, serverLang, kaikkiDisk, glossDisk, arg, result, ret, done,
                   fdServer, fdDisk, tatoeba, capture>>

NextCrash ==
    \/ RawCheck(Runner)
    \/ RawOpen(Runner)
    \/ RawWrite(Runner)
    \/ CacheCheck(Runner)
    \/ FilterToTemp(Runner)
    \/ Fallback(Runner)
    \/ RenameTemp(Runner)
    \/ WriteMeta(Runner)
    \/ InterruptRawDownload
    \/ InterruptFilter
    \/ InterruptLanguageDownload
    \/ InterruptMetaWrite
    \/ InterruptBetween
    \/ NextRun

SpecCrash == InitConcurrent /\ [][NextCrash]_vars

\* the cached subset passes the freshness test of 144-150
FreshOnDisk ==
    /\ rawFile.exists
    /\ CacheIsFresh(filteredFiles[BaseSlug], metaFiles[BaseSlug], IntMtime(rawFile.mtime))

\* C28: the filtered-subset cache is crash-consistent: whenever runs of
\* ensure_filtered_language were interrupted, the disk is either not fresh, or
\* fresh with the complete filtered file (the one an uninterrupted run writes)
\* whose number of lines is the sidecar count.
C28_CrashConsistent ==
    FreshOnDisk =>
        /\ filteredFiles[BaseSlug].lines = AloneOutcome.filtered.lines
        /\ Len(filteredFiles[BaseSlug].lines) = metaFiles[BaseSlug].count

\* the part of C28 that is about the order of the rename and the sidecar write
C28_CountMatchesFile ==
    FreshOnDisk => Len(filteredFiles[BaseSlug].lines) = metaFiles[BaseSlug].count

(***************************************************************************)
(* Languages that share a slug (kaikki.py:139-150, 378-380).  _slugify     *)
(* turns every run of characters outside [A-Za-z0-9] into "_", so names    *)
(* that differ only in such characters get the same files                  *)
(* filtered/<slug>.jsonl and filtered/<slug>.meta.json.  The freshness     *)
(* test reads source_mtime and count of the sidecar, not its language.     *)
(***************************************************************************)
OldEnglishHyphen == <<"Old", "-", "English">>
SlugLangs == {OldEnglish, OldEnglishHyphen, English}
SlugSlugs == {Slugify(CanonicalLanguage(L)) : L \in SlugLangs}
SlugKaikkiSlugs == {KaikkiSlug(CanonicalLanguage(L)) : L \in SlugLangs}

\* raw dumps with entries of the three languages
SlugRawLines == {Entry(L, NoName, W1, <<>>) : L \in SlugLangs}

InitSlug ==
    /\ serverRaw \in SeqsUpTo(SlugRawLines, MaxLines)
    /\ serverLang \in {[s \in SlugKaikkiSlugs |-> b] : b \in LangBodies}
    /\ rawFile = NoFile
    /\ langFiles = [s \in SlugKaikkiSlugs |-> NoFile]
    /\ filteredFiles = [s \in SlugSlugs |-> NoFile]
    /\ metaFiles = [s \in SlugSlugs |-> NoMeta]
    /\ tmpFiles = [s \in SlugSlugs |-> NoFile]
    /\ EmptyGlossDisk
    /\ clock = 0
    /\ ret = NoRet
    /\ NoOtherState
    /\ done = [L \in SlugLangs |-> NotDone]

NextSlug ==
    \/ \E L \in SlugLangs : EnsureFilteredLanguage(L)
    \/ \E L \in SlugLangs : BuilderEnsureFilteredLanguage(L)

SpecSlug == InitSlug /\ [][NextSlug]_vars

\* the requested language as the call names it in its sidecar
SidecarLanguage(op, L) ==
    IF op = "ensure_filtered_language" THEN CanonicalLanguage(L) ELSE L

\* C29: the subset ensure_filtered_language(L) returns was filtered for L: two
\* languages whose slugs coincide never receive each other's cached file and
\* count, i.e. the sidecar of a returned subset names L and the count returned
\* is the number of lines of the file.
C29_OwnSubset ==
    (ret.op \in FilterOps /\ Succeeded(ret.outcome)) =>
        /\ metaFiles[ret.slug].language = SidecarLanguage(ret.op, ret.lang)
        /\ ret.count = Len(filteredFiles[ret.slug].lines)

\* the same for calls whose language shares its slug with no other language
C29_UniqueSlugOwnSubset ==
    (ret.op \in FilterOps /\ Succeeded(ret.outcome) /\ ret.lang = English) =>
        /\ metaFiles[ret.slug].language = SidecarLanguage(ret.op, ret.lang)
        /\ ret.count = Len(filteredFiles[ret.slug].lines)

(***************************************************************************)
(* The downloads of TatoebaExamples._load_pairs (tatoeba.py:98-151,        *)
(* 154-171, 173-215, 262-324) for one source and one target language on    *)
(* one cache root.  A file name is the pair of its prefix and its base; a  *)
(* URL is a language code with a file name.  arg holds what the server     *)
(* hosts; in each call the requests of some kinds (sentences, links, the   *)
(* global links) fail.  The legacy places <root>/<name> are never written  *)
(* by the program and are empty.                                           *)
(***************************************************************************)
FetchSource == "eng"
FetchTarget == "rus"
FetchPair == "eng-rus"

FileName(prefix, base) == [prefix |-> prefix, base |-> base]
Url(language_code, filename) == [lang |-> language_code, file |-> filename]

SENTENCE_FILES ==
    <<FileName("", "sentences.tar.bz2"), FileName("", "sentences.csv.bz2"),
      FileName("", "sentences.tsv.bz2"), FileName("", "sentences.csv"),
      FileName("", "sentences.tsv")>>
LINK_FILES ==
    <<FileName("", "links.tar.bz2"), FileName("", "links.csv.bz2"),
      FileName("", "links.tsv.bz2"), FileName("", "links.csv"), FileName("", "links.tsv")>>
GLOBAL_FILES == <<"links.csv.bz2", "links.csv", "links.tar.bz2">>

\* the candidates list of _collect_sentences
SentenceCandidates(lang) ==
    <<FileName(lang, "sentences.tsv.bz2"), FileName(lang, "sentences.csv.bz2"),
      FileName(lang, "sentences.tsv"), FileName(lang, "sentences.csv")>> \o SENTENCE_FILES

\* the candidates list of _collect_links for one target language
LinkCandidates(lang, pair) ==
    <<FileName(pair, "links.tsv.bz2"), FileName(pair, "links.csv.bz2"),
      FileName(pair, "links.tsv"), FileName(pair, "links.csv"),
      FileName(lang, "links.tsv.bz2"), FileName(lang, "links.csv.bz2"),
      FileName(lang, "links.tsv"), FileName(lang, "links.csv")>> \o LINK_FILES

\* downloads/<local_name>: the name itself when it starts with "<code>_",
\* else the name with "<code>_" put before it; held as the parts after "<code>_"
Destination(language_code, filename) ==
    [lang |-> language_code,
     parts |-> IF filename.prefix \in {language_code, ""} THEN <<filename.base>>
               ELSE <<filename.prefix, filename.base>>]

\* _ensure_download: the path, or TatoebaError
ensure_download(language_code, filename, downloads, hosted, reachable) ==
    LET destination == Destination(language_code, filename) IN
    IF destination \in downloads THEN [path |-> <<destination>>, downloads |-> downloads]
    ELSE IF reachable /\ Url(language_code, filename) \in hosted
    THEN [path |-> <<destination>>, downloads |-> downloads \cup {destination}]
    ELSE [path |-> <<>>, downloads |-> downloads]

RECURSIVE download_first_available(_, _, _, _, _)
\* _download_first_available: the first candidate that does not raise, or None
download_first_available(language_code, candidates, downloads, hosted, reachable) ==
    IF candidates = <<>> THEN [path |-> <<>>, downloads |-> downloads]
    ELSE LET got == ensure_download(language_code, Head(candidates), downloads, hosted,
                                    reachable)
         IN IF got.path # <<>> THEN got
            ELSE download_first_available(language_code, Tail(candidates), downloads,
                                          hosted, reachable)

RECURSIVE ensure_global_links(_, _, _, _)
\* _ensure_global_links: a failed download is unlinked and the next name tried
ensure_global_links(names, global, hosted, reachable) ==
    IF names = <<>> THEN [path |-> <<>>, global |-> global]
    ELSE IF Head(names) \in global THEN [path |-> <<Head(names)>>, global |-> global]
    ELSE IF reachable /\ Head(names) \in hosted
    THEN [path |-> <<Head(names)>>, global |-> global \cup {Head(names)}]
    ELSE ensure_global_links(Tail(names), global, hosted, reachable)

\* the text of a sentence id in an extracted file, "" when absent
TextOf(sentences, id) ==
    IF \E s \in sentences : s.id = id
    THEN (CHOOSE s \in sentences : s.id = id).text
    ELSE <<>>

\* the linked pairs the loops of 130-143 add to seen
SeenPairs(source_sentences, target_sentences, links) ==
    {[key |-> Normalise(TextOf(source_sentences, l[1])),
      pair |-> SentencePair(TextOf(source_sentences, l[1]), TextOf(target_sentences, l[2]))] :
        l \in {m \in links : /\ TextOf(source_sentences, m[1]) # <<>>
                             /\ Normalise(TextOf(source_sentences, m[1])) # <<>>
                             /\ TextOf(target_sentences, m[2]) # <<>>}}

\* the dict pairs: each key with its set of examples
PairsDict(seen) ==
    [k \in {s.key : s \in seen} |-> {s.pair : s \in {t \in seen : t.key = k}}]

NoFetchDisk == [downloads |-> {}, global |-> {}, pairs_cache |-> NoPairsFile]
FetchEnd(disk, pairs, raised, wrote, failed) ==
    [disk |-> disk, pairs |-> pairs, raised |-> raised, wrote |-> wrote, failed |-> failed]
WriteCache(disk, downloads, pairs, failed) ==
    FetchEnd([disk EXCEPT !.downloads = downloads,
                          !.pairs_cache = [exists |-> TRUE, pairs |-> pairs]],
             pairs, "none", TRUE, failed)

\* _load_pairs of an instance that has not loaded yet (101-151)
load_pairs(disk, server, unreachable) ==
    LET src == download_first_available(FetchSource, SentenceCandidates(FetchSource),
                                        disk.downloads, server.hosted,
                                        "sentences" \notin unreachable)
        source_sentences == IF src.path = <<>> THEN {} ELSE server.sentences[FetchSource]
        tgt == download_first_available(FetchTarget, SentenceCandidates(FetchTarget),
                                        src.downloads, server.hosted,
                                        "sentences" \notin unreachable)
        target_sentences == IF tgt.path = <<>> THEN {} ELSE server.sentences[FetchTarget]
        lnk == download_first_available(FetchSource, LinkCandidates(FetchSource, FetchPair),
                                        tgt.downloads, server.hosted,
                                        "links" \notin unreachable)
        glb == ensure_global_links(GLOBAL_FILES, disk.global, server.global,
                                   "global" \notin unreachable)
        \* links[lang]: the per-language file, or the rows of the global file whose
        \* source id is a sentence of lang
        links == IF lnk.path # <<>> THEN server.links
                 ELSE {l \in server.links : TextOf(source_sentences, l[1]) # <<>>}
    IN IF disk.pairs_cache.exists
       THEN FetchEnd(disk, disk.pairs_cache.pairs, "none", FALSE, FALSE)
       ELSE IF source_sentences = {}
       THEN WriteCache(disk, src.downloads, <<>>, src.path = <<>>)
       ELSE IF target_sentences = {}
       THEN WriteCache(disk, tgt.downloads, <<>>, tgt.path = <<>>)
       ELSE IF lnk.path = <<>> /\ glb.path = <<>>
       THEN FetchEnd([disk EXCEPT !.downloads = lnk.downloads, !.global = glb.global],
                     <<>>, "TatoebaError", FALSE, TRUE)
       ELSE WriteCache([disk EXCEPT !.global = IF lnk.path = <<>> THEN glb.global ELSE @],
                       lnk.downloads,
                       PairsDict(SeenPairs(source_sentences, target_sentences, links)),
                       FALSE)

\* what the server hosts
SourceSentences == {{}, {[id |-> "1", text |-> Ta]}}
TargetSentences == {{}, {[id |-> "2", text |-> Tx]}}
LinkRows == {{}, {<<"1", "2">>}}
HostedFiles ==
    {{Url(FetchSource, FileName(FetchSource, "sentences.tsv.bz2")),
      Url(FetchTarget, FileName(FetchTarget, "sentences.tsv.bz2")),
      Url(FetchSource, FileName(FetchPair, "links.tsv.bz2"))},
     {Url(FetchSource, FileName("", "sentences.csv")),
      Url(FetchTarget, FileName(FetchTarget, "sentences.csv")),
      Url(FetchSource, FileName(FetchSource, "links.csv"))},
     {Url(FetchSource, FileName(FetchSource, "sentences.csv.bz2")),
      Url(FetchTarget, FileName("", "sentences.tar.bz2"))}}
HostedGlobal == {{}, {"links.csv"}}
RequestKinds == {"sentences", "links", "global"}

InitFetch ==
    /\ serverRaw = <<>>
    /\ serverLang = <<>>
    /\ rawFile = NoFile
    /\ langFiles = <<>>
    /\ filteredFiles = <<>>
    /\ metaFiles = <<>>
    /\ tmpFiles = <<>>
    /\ localizedFiles = <<>>
    /\ mapFiles = <<>>
    /\ translationCache = <<>>
    /\ result = <<>>
    /\ clock = 0
    /\ done = <<>>
    /\ fdServer = <<>>
    /\ fdDisk = <<>>
    /\ procs = <<>>
    /\ capture = <<>>
    /\ arg \in [sentences : [{FetchSource, FetchTarget} -> SourceSentences \cup TargetSentences],
                links : LinkRows, hosted : HostedFiles, global : HostedGlobal]
    /\ arg.sentences[FetchSource] \in SourceSentences
    /\ arg.sentences[FetchTarget] \in TargetSentences
    /\ tatoeba = [disk |-> NoFetchDisk, loaded |-> FALSE, pairs |-> <<>>]
    /\ ret = NoRet

\* a call of _load_pairs (through vocabulary or get_examples_for)
FetchPairs ==
    /\ IF tatoeba.loaded
       THEN /\ ret' = [op |-> "_load_pairs",
                       end |-> FetchEnd(tatoeba.disk, tatoeba.pairs, "none", FALSE, FALSE)]
            /\ UNCHANGED tatoeba
       ELSE \E unreachable \in SUBSET RequestKinds :
             \E end \in {load_pairs(tatoeba.disk, arg, unreachable)} :
                /\ ret' = [op |-> "_load_pairs", end |-> end]
                /\ tatoeba' = [disk |-> end.disk, loaded |-> end.raised = "none",
                              pairs |-> end.pairs]
    /\ UNCHANGED <<serverRaw, serverLang, kaikkiDisk, glossDisk, arg, result, clock, done,
                   fdServer, fdDisk, procs, capture>>

\* a later run: TatoebaExamples.__init__ without reset_cache on the same root
NextFetchRun ==
    /\ ret.op = "_load_pairs"
    /\ tatoeba' = [tatoeba EXCEPT !.loaded = FALSE, !.pairs = <<>>]
    /\ ret' = [op |-> "__init__", end |-> FetchEnd(tatoeba.disk, <<>>, "none", FALSE, FALSE)]
    /\ UNCHANGED <<serverRaw, serverLang, kaikkiDisk, glossDisk, arg, result, clock, done,
                   fdServer, fdDisk, procs, capture>>

NextFetch == FetchPairs \/ NextFetchRun

SpecFetch == InitFetch /\ [][NextFetch]_vars

\* C30: a failed fetch is not persisted: a call of _load_pairs in which every
\* candidate of a sentence download or of the links download failed writes no
\* pairs cache, and the pairs cache on disk is empty only when the server's
\* data hold no pair.
C30_FailedFetchNotPersisted ==
    /\ (ret.op = "_load_pairs" /\ ret.end.failed) => ~ret.end.wrote
    /\ (tatoeba.disk.pairs_cache.exists /\ tatoeba.disk.pairs_cache.pairs = <<>>) =>
          SeenPairs(arg.sentences[FetchSource], arg.sentences[FetchTarget], arg.links) = {}

\* the same while the sentence requests get through
C30_LinksFailureNotPersisted ==
    (ret.op = "_load_pairs" /\ ret.end.failed /\ ret.end.raised = "TatoebaError")
        => ~ret.end.wrote /\ ~tatoeba.disk.pairs_cache.exists

====
